---------------------------- MODULE Spec2Model ----------------------------
(***************************************************************************)
(* State-machine model of the hydrothermal-vent simulator (hyd-u): the      *)
(* per-step kernel pipeline of SimulationEngine.step, the field kernels,    *)
(* the density clear/scatter kernels, the prey (P) and predator            *)
(* (P2) update kernels and the host operations that reinitialise buffers.   *)
(*                                                                          *)
(* Numbers.  Every f32 of the program is a fixed-point integer with Scale   *)
(* units per 1.0 (products and quotients round towards minus infinity).     *)
(* A NaN position component is the sentinel NaN; only positions can be NaN  *)
(* in the inputs the model draws.                                           *)
(*                                                                          *)
(* Kernels.  A grid kernel whose invocations touch disjoint cells (R, O, C, *)
(* H, H-diffuse, M, the clears) is one action.  The scatter kernel and the  *)
(* two agent kernels run one invocation per action, in any order: their     *)
(* invocations write shared locations (atomic counters, reproduction        *)
(* targets).  A store of a whole agent record is taken as indivisible.      *)
(* The prey kernel loads and stores bField without synchronisation: a load  *)
(* returns the cell as it is, or as it was when the pass began (BViews).    *)
(*                                                                          *)
(* Abstractions.  The hashed random numbers of one invocation all derive    *)
(* from one seed, so an invocation's inputs are one record Seed(k): the     *)
(* reproduction start slot r0, the steering direction, the spawn direction  *)
(* (unit vectors of Dirs, standing for cos/sin of hashed angles) and the    *)
(* child's velocity jitter.  The child is spawned at the full spawn radius  *)
(* (the program: between half and the full radius).  The record field `age` *)
(* is not kept.  Intermediate results of the agent kernels are bound with   *)
(* Once, which evaluates them one time.                                     *)
(*                                                                          *)
(* Host.  The parameter table and the controls (SpecParams), the animation  *)
(* loop (SpecLoop) and the batch runner (SpecBatch) are specifications of   *)
(* their own over the same variables; SpecTrial applies the agents' motion  *)
(* code to one agent on a grid of its own, and SpecCollapse runs the step   *)
(* pipeline on a starving prey population.  SpecBatchDt is a batch run with *)
(* the time step control in use, SpecHost a batch run with the buttons and  *)
(* the animation loop in use, and SpecSpawn one predator pass over a pool   *)
(* of SpawnSlots slots.                                                     *)
(***************************************************************************)
EXTENDS Integers, Sequences, FiniteSets, TLC

(* ------------------------------ bounds -------------------------------- *)
\* capacity of each agent pool (the program: 16384 slots)
MaxSlots == 2
\* grid width and height in cells (the program: 64..1024)
GridW == 2
GridH == 1
\* number of simulation steps a behaviour runs
MaxSteps == 2

(* -------------------------- program constants -------------------------- *)
\* reproduction probes and probe stride
ProbeCount == 8
ProbeStride == 1237

Scale == 10 * 10 * 10
NaN == 0 - 999999

maxParticles == MaxSlots
maxPredators == MaxSlots
Slots == 0 .. (MaxSlots - 1)
Cells == 0 .. (GridW * GridH - 1)
gridW == GridW
gridH == GridH
maxX == (gridW - 1) * Scale
maxY == (gridH - 1) * Scale

(* ------------------------- fixed-point helpers ------------------------- *)
Min(a, b) == IF a < b THEN a ELSE b
Max(a, b) == IF a > b THEN a ELSE b
clamp(v, lo, hi) == Min(Max(v, lo), hi)
Abs(a) == IF a < 0 THEN 0 - a ELSE a
\* floor(a * b / Scale), split so that the product stays in range
Mul(a, b) == (a \div Scale) * b + ((a % Scale) * b) \div Scale
Div(a, b) == (a * Scale) \div b

RECURSIVE SqrtBetween(_, _, _)
\* the largest r in lo..hi with r * r <= n, by bisection
SqrtBetween(n, lo, hi) ==
  IF lo >= hi THEN lo
  ELSE LET mid == (lo + hi + 1) \div 2
       IN  IF mid * mid <= n THEN SqrtBetween(n, mid, hi) ELSE SqrtBetween(n, lo, mid - 1)
\* integer square root: sqrt of a Scale^2-scaled square gives a Scale-scaled value
ISqrt(n) == IF n <= 0 THEN 0 ELSE SqrtBetween(n, 0, 40 * Scale)
length(vx, vy) == ISqrt(vx * vx + vy * vy)

RECURSIVE pow(_, _)
\* pow(falloff, rFalloffPower) for the whole-number exponents the model draws
pow(b, e) == IF e <= 0 THEN Scale ELSE Mul(b, pow(b, e - 1))

smoothstep(x) ==
  LET t == clamp(x, 0, Scale)
  IN  Mul(Mul(t, t), 3 * Scale - 2 * t)

(* ------------------------------ the grid ------------------------------- *)
CellX(i) == i % gridW
CellY(i) == i \div gridW
\* neighbour reads of the 5-point stencils: the centre stands in at an edge
Left(f, i)  == IF CellX(i) > 0 THEN f[i - 1] ELSE f[i]
Right(f, i) == IF CellX(i) < gridW - 1 THEN f[i + 1] ELSE f[i]
Up(f, i)    == IF CellY(i) > 0 THEN f[i - gridW] ELSE f[i]
Down(f, i)  == IF CellY(i) < gridH - 1 THEN f[i + gridW] ELSE f[i]
Laplacian(f, i) == Left(f, i) + Right(f, i) + Up(f, i) + Down(f, i) - 4 * f[i]
GradX(f, i) == (Right(f, i) - Left(f, i)) \div 2
GradY(f, i) == (Down(f, i) - Up(f, i)) \div 2

\* terrain-driven advection term shared by the R and O kernels
TerrainAdvection(f, z, prm, i) ==
  IF prm.terrainEnabled > Scale \div 2 /\ prm.terrainFlowStrength > 0
  THEN LET vx == 0 - Mul(prm.terrainFlowStrength, GradX(z, i))
           vy == 0 - Mul(prm.terrainFlowStrength, GradY(z, i))
       IN  0 - Mul(Mul(vx, GradX(f, i)) + Mul(vy, GradY(f, i)), prm.deltaTime)
  ELSE 0

(* ---------------------------- field kernels ---------------------------- *)
\* quarter-turn rotation standing for (cos, sin) of currentTime * 0.5
Rot(q) == CASE q % 4 = 0 -> <<Scale, 0>>
            [] q % 4 = 1 -> <<0, Scale>>
            [] q % 4 = 2 -> <<0 - Scale, 0>>
            [] OTHER     -> <<0, 0 - Scale>>

RSource(prm, i) ==
  LET dx == CellX(i) * Scale - prm.rCenterX
      dy == CellY(i) * Scale - prm.rCenterY
      dist == ISqrt(dx * dx + dy * dy)
      normalizedDist == Div(dist, prm.rDecayRadius)
      falloff == Scale - smoothstep(normalizedDist)
  IN  Mul(prm.rMaxStrength, pow(falloff, prm.rFalloffPower))

UpdateRCell(rIn, z, prm, q, i) ==
  LET diffusion == Mul(Mul(prm.rDiffusionRate, Laplacian(rIn, i)), prm.deltaTime)
      c == Rot(q)[1]
      s == Rot(q)[2]
      vx == Mul(prm.rAdvectionVX, c) - Mul(prm.rAdvectionVY, s)
      vy == Mul(prm.rAdvectionVX, s) + Mul(prm.rAdvectionVY, c)
      adv0 == IF prm.rAdvectionEnabled > Scale \div 2
              THEN 0 - Mul(Mul(vx, GradX(rIn, i)) + Mul(vy, GradY(rIn, i)), prm.deltaTime)
              ELSE 0
      advection == adv0 + TerrainAdvection(rIn, z, prm, i)
      decay == Mul(Mul(rIn[i], prm.rDecayRate), prm.deltaTime)
      newR == rIn[i] + Mul(RSource(prm, i), prm.deltaTime) + diffusion + advection - decay
  IN  clamp(newR, 0, Scale)

\* reaction flux F = min(reactionRate*R*O, O/dt) and its split by g = clamp(M,0,1)
Flux(r, o, prm) == Min(Mul(prm.reactionRate, Mul(r, o)), Div(o, prm.deltaTime))
FWaste(r, o, m, prm) == Mul(Scale - clamp(m, 0, Scale), Flux(r, o, prm))
FFix(r, o, m, prm) == Mul(clamp(m, 0, Scale), Flux(r, o, prm))

UpdateOCell(oIn, rCur, z, prm, i) ==
  LET diffusion == Mul(Mul(prm.oDiffusionRate, Laplacian(oIn, i)), prm.deltaTime)
      advection == TerrainAdvection(oIn, z, prm, i)
      restore == Mul(Mul(prm.restoreRate, prm.o0 - oIn[i]), prm.deltaTime)
      consumption == Mul(Flux(rCur[i], oIn[i], prm), prm.deltaTime)
      newO == oIn[i] + restore + diffusion + advection - consumption
  IN  clamp(newO, 0, Scale)

UpdateOCellB(oIn, rCur, mCur, b, prm, i) ==
  LET newB == b[i] + Mul(FFix(rCur[i], oIn[i], mCur[i], prm), prm.deltaTime)
                   - Mul(Mul(b[i], prm.bDecayRate), prm.deltaTime)
  IN  clamp(newB, 0, 10 * Scale)

UpdateHCell(hIn, rCur, oCur, mCur, prm, i) ==
  LET production == Mul(FWaste(rCur[i], oCur[i], mCur[i], prm), prm.deltaTime)
      decay == Mul(Mul(hIn[i], prm.hDecayRate), prm.deltaTime)
  IN  clamp(hIn[i] + production - decay, 0, 10 * Scale)

DiffuseHCell(hIn, prm, i) ==
  LET diffusion == Mul(Mul(prm.hDiffusionRate, Laplacian(hIn, i)), prm.deltaTime)
  IN  clamp(hIn[i] + diffusion, 0, 10 * Scale)

\* the M kernel's three results for one cell: <<newM, newB, newBLong>>, unclamped
MCell(mIn, b, bLong, prm, i) ==
  LET km == Max(prm.kBase + Mul(prm.kAlpha, bLong[i]), 1)
      growth == Mul(Mul(prm.mGrowRate, b[i]), Scale - Div(mIn[i], km))
      death == Mul(prm.mDeathRate, mIn[i])
      dM == Mul(growth - death, prm.deltaTime)
      consume == Min(Mul(prm.mYield, Max(dM, 0)), b[i])
      newB == b[i] - consume
      newBLong == bLong[i] + Mul(Mul(prm.bLongRate, newB - bLong[i]), prm.deltaTime)
  IN  <<mIn[i] + dM, newB, newBLong>>

\* variant of UpdateMCell: the new M is stored without the clamp to [0, 10]
UpdateMCell_Unclamped(mIn, b, bLong, prm, i) == MCell(mIn, b, bLong, prm, i)[1]
UpdateMCell(mIn, b, bLong, prm, i) == clamp(MCell(mIn, b, bLong, prm, i)[1], 0, 10 * Scale)
UpdateMCellB(mIn, b, bLong, prm, i) == clamp(MCell(mIn, b, bLong, prm, i)[2], 0, 10 * Scale)
UpdateMCellBLong(mIn, b, bLong, prm, i) == clamp(MCell(mIn, b, bLong, prm, i)[3], 0, 10 * Scale)

ComputeCCell(rCur, oCur, i) == Mul(rCur[i], oCur[i])

(* ------------------------------- agents -------------------------------- *)
\* unit steering / spawn directions (inputs)
Dirs == <<(<<Scale, 0>>), (<<0 - Scale, 0>>), (<<0, Scale>>)>>
\* what clamp() may return for a NaN operand
NaNOutcomes == {"low", "high", "nan"}
\* The hashed random numbers of one invocation all derive from one seed: seed k
\* gives the start slot k, a steering direction, a spawn direction and a jitter.
Seed(k) ==
  [r0 |-> k,
   dir |-> Dirs[(k % 3) + 1],
   spawn |-> Dirs[((k + 1) % 3) + 1],
   jit |-> IF k % 2 = 0 THEN <<Scale, Scale>> ELSE <<0 - Scale, 0 - Scale>>,
   nan |-> "nan"]
Inputs == {Seed(k) : k \in 0 .. (maxParticles - 1)}

is_nan(x) == x = NaN
AddF(a, b) == IF is_nan(a) \/ is_nan(b) THEN NaN ELSE a + b
\* clamp(v, lo, hi) of WGSL: indeterminate for a NaN operand
clampF(v, lo, hi, nan) ==
  IF is_nan(v)
  THEN (CASE nan = "low" -> lo [] nan = "high" -> hi [] OTHER -> NaN)
  ELSE clamp(v, lo, hi)
\* u32(x) of a clamped coordinate, in cells
u32(v) == IF is_nan(v) \/ v < 0 THEN 0 ELSE v \div Scale

\* a record of a zeroed buffer (8 zero words)
ZeroParticle == [pos |-> <<0, 0>>, vel |-> <<0, 0>>, energy |-> 0, type_ |-> 0, state |-> 0]
\* a store to slot i of a storage buffer
Store(buf, i, v) == [j \in (DOMAIN buf) \cup {i} |-> IF j = i THEN v ELSE buf[j]]

\* cell index of a position: clamp to the grid, truncate, y * width + x
CellOf(pos, nan) ==
  u32(clampF(pos[2], 0, maxY, nan)) * gridW + u32(clampF(pos[1], 0, maxX, nan))

\* the one value of a singleton set: binds an intermediate result
Once(S) == CHOOSE x \in S : TRUE

\* velocity smoothing towards the desired velocity
Smooth(vel, desiredVel, friction, dt) ==
  LET damping == clamp(Scale - Mul(friction, dt), 0, Scale)
  IN  <<Mul(vel[1], damping) + Mul(desiredVel[1], Scale - damping),
        Mul(vel[2], damping) + Mul(desiredVel[2], Scale - damping)>>

\* speed limit: a velocity longer than maxSpeed is rescaled to maxSpeed
Limit(v, maxSpeed) ==
  Once({IF len > maxSpeed
        THEN <<Mul(Div(v[1], len), maxSpeed), Mul(Div(v[2], len), maxSpeed)>>
        ELSE v : len \in {length(v[1], v[2])}})

\* integration with velocity v, wall reflection (bounce 0.7), final clamp, on a
\* grid whose last column and row are mx and my
ReflectIn(p, v, dt, nan, mx, my) ==
  LET nx == AddF(p.pos[1], Mul(v[1], dt))
      ny == AddF(p.pos[2], Mul(v[2], dt))
      lowX == ~is_nan(nx) /\ nx < 0
      highX == ~is_nan(nx) /\ nx > mx
      lowY == ~is_nan(ny) /\ ny < 0
      highY == ~is_nan(ny) /\ ny > my
      rx == IF lowX THEN 0 - nx ELSE IF highX THEN 2 * mx - nx ELSE nx
      ry == IF lowY THEN 0 - ny ELSE IF highY THEN 2 * my - ny ELSE ny
      v3x == IF lowX THEN Abs(v[1]) ELSE IF highX THEN 0 - Abs(v[1]) ELSE v[1]
      v3y == IF lowY THEN Abs(v[2]) ELSE IF highY THEN 0 - Abs(v[2]) ELSE v[2]
      bounced == lowX \/ highX \/ lowY \/ highY
      bounce == (7 * Scale) \div 10
  IN  [p EXCEPT !.pos = <<clampF(rx, 0, mx, nan), clampF(ry, 0, my, nan)>>,
                !.vel = IF bounced THEN <<Mul(v3x, bounce), Mul(v3y, bounce)>>
                                   ELSE <<v3x, v3y>>]

\* the same on the grid of the run
Reflect(p, v, dt, nan) == ReflectIn(p, v, dt, nan, maxX, maxY)

\* variant of MoveIn: the position is clamped to the grid before it is integrated
MoveIn_ClampsFirst(p, desiredVel, friction, speed, dt, nan, mx, my) ==
  Once({ReflectIn([p EXCEPT !.pos = <<clampF(p.pos[1], 0, mx, nan),
                                      clampF(p.pos[2], 0, my, nan)>>],
                  v, dt, nan, mx, my) :
          v \in {Limit(Smooth(p.vel, desiredVel, friction, dt), speed * 2)}})

\* velocity smoothing, speed limit, integration, wall reflection, final clamp
MoveIn(p, desiredVel, friction, speed, dt, nan, mx, my) ==
  Once({ReflectIn(p, v, dt, nan, mx, my) :
          v \in {Limit(Smooth(p.vel, desiredVel, friction, dt), speed * 2)}})

\* the same on the grid of the run
Move(p, desiredVel, friction, speed, dt, nan) ==
  MoveIn(p, desiredVel, friction, speed, dt, nan, maxX, maxY)

\* variant of FreeProbes: every probe counts as free, whatever the input state
FreeProbes_Any(bufIn, startSlot, capacity) == 0 .. (ProbeCount - 1)
\* the probes (startSlot + attempt * 1237) % capacity whose input state is 0
FreeProbes(bufIn, startSlot, capacity) ==
  {attempt \in 0 .. (ProbeCount - 1) :
      bufIn[(startSlot + attempt * ProbeStride) % capacity].state = 0}
FirstProbe(S) == CHOOSE a \in S : \A b \in S : a <= b
candidateSlot(startSlot, attempt, capacity) == (startSlot + attempt * ProbeStride) % capacity

\* variant of Child: the spawn position is not clamped to the grid
Child_Unclamped(p, spawnRadius, speed, inp) ==
  [pos |-> <<AddF(p.pos[1], Mul(inp.spawn[1], spawnRadius)),
             AddF(p.pos[2], Mul(inp.spawn[2], spawnRadius))>>,
   vel |-> <<p.vel[1] \div 2 + Mul(Mul(inp.jit[1], speed), (3 * Scale) \div 10),
             p.vel[2] \div 2 + Mul(Mul(inp.jit[2], speed), (3 * Scale) \div 10)>>,
   energy |-> p.energy,
   type_ |-> p.type_,
   state |-> 1]

\* the child of parent p (p.energy already halved)
Child(p, spawnRadius, speed, inp) ==
  [pos |-> <<clampF(AddF(p.pos[1], Mul(inp.spawn[1], spawnRadius)), 0, maxX, inp.nan),
             clampF(AddF(p.pos[2], Mul(inp.spawn[2], spawnRadius)), 0, maxY, inp.nan)>>,
   vel |-> <<p.vel[1] \div 2 + Mul(Mul(inp.jit[1], speed), (3 * Scale) \div 10),
             p.vel[2] \div 2 + Mul(Mul(inp.jit[2], speed), (3 * Scale) \div 10)>>,
   energy |-> p.energy,
   type_ |-> p.type_,
   state |-> 1]

\* variant of Finish: the energy is capped but a starved agent stays active
Finish_NoStarvation(p, minEnergy, maxEnergy) ==
  [p EXCEPT !.energy = Min(p.energy, maxEnergy)]

\* cap the energy, mark a starved agent inactive
Finish(p, minEnergy, maxEnergy) ==
  LET e == Min(p.energy, maxEnergy)
  IN  [p EXCEPT !.energy = e, !.state = IF e < minEnergy THEN 0 ELSE p.state]

\* terrain downhill drift added to the predator's desired velocity
Drift(z, prm, base) ==
  IF prm.terrainEnabled > Scale \div 2 /\ prm.terrainParticleDriftStrength > 0
  THEN LET scale == Div(Scale, Max(prm.terrainH0, 1))
       IN  <<0 - Mul(Mul(prm.terrainParticleDriftStrength, GradX(z, base)), scale),
             0 - Mul(Mul(prm.terrainParticleDriftStrength, GradY(z, base)), scale)>>
  ELSE <<0, 0>>

\* predator: motion, energy decay and eating; the record before reproduction
P2Feed(p, pDens, z, prm, inp) ==
  LET base == CellOf(p.pos, inp.nan)
      drift == Drift(z, prm, base)
      desiredVel == <<Mul(inp.dir[1], prm.p2Speed) + drift[1],
                      Mul(inp.dir[2], prm.p2Speed) + drift[2]>>
      decay == Mul(prm.p2EnergyDecayRate, prm.deltaTime)
      eatAmount == Mul(Mul(prm.p2EatAmount, prm.deltaTime),
                       clamp(pDens[base] * Scale, 0, 4 * Scale))
      gain == IF prm.p2EatEnabled > Scale \div 2
              THEN Mul(eatAmount, prm.p2EnergyFromEat) ELSE 0
  IN  Once({[moved EXCEPT !.energy = moved.energy - decay + gain] :
              moved \in {Move(p, desiredVel, prm.p2Friction, prm.p2Speed,
                              prm.deltaTime, inp.nan)}})

\* predator: reproduction, energy cap, starvation, write back, in a pool of
\* the given capacity
P2ReproduceIn(predatorsIn, predatorsOut, prm, idx, inp, fed, capacity) ==
  LET wants == prm.p2ReproduceEnabled > Scale \div 2
                 /\ fed.energy >= prm.p2ReproduceThreshold /\ fed.state = 1
      startSlot == inp.r0
      free == FreeProbes(predatorsIn, startSlot, capacity)
      foundSlot == wants /\ free # {}
  IN  Once({Store(IF foundSlot
                  THEN Store(predatorsOut,
                             candidateSlot(startSlot, FirstProbe(free), capacity),
                             Child(parent, prm.p2ReproduceSpawnRadius, prm.p2Speed, inp))
                  ELSE predatorsOut,
                  idx, Finish(parent, prm.p2MinEnergy, prm.p2MaxEnergy)) :
              parent \in {[fed EXCEPT !.energy = IF foundSlot THEN fed.energy \div 2
                                                              ELSE fed.energy]}})

\* the same in the pool of the run
P2Reproduce(predatorsIn, predatorsOut, prm, idx, inp, fed) ==
  P2ReproduceIn(predatorsIn, predatorsOut, prm, idx, inp, fed, maxPredators)

\* updateP2.wgsl main, invocation idx: the predator output buffer afterwards,
\* in a pool of the given capacity
UpdateP2SlotIn(predatorsIn, predatorsOut, pDens, z, prm, idx, inp, capacity) ==
  LET p == predatorsIn[idx]
  IN
  IF p.state = 0 THEN predatorsOut
  ELSE IF is_nan(p.pos[1]) \/ is_nan(p.pos[2])
  THEN Store(predatorsOut, idx, [p EXCEPT !.state = 0])
  ELSE Once({P2ReproduceIn(predatorsIn, predatorsOut, prm, idx, inp, fed, capacity) :
               fed \in {P2Feed(p, pDens, z, prm, inp)}})

\* the same in the pool of the run
UpdateP2Slot(predatorsIn, predatorsOut, pDens, z, prm, idx, inp) ==
  UpdateP2SlotIn(predatorsIn, predatorsOut, pDens, z, prm, idx, inp, maxPredators)

\* prey: the cell of bField a moved agent eats from
EatCell(moved) == u32(moved.pos[2]) * gridW + u32(moved.pos[1])

\* variant of PEnergy: eating adds nothing to the energy
PEnergy_NoGain(moved, b, p2Dens, prm) ==
  LET localPredators == p2Dens[EatCell(moved)]
      predation == IF localPredators > 0
                   THEN Mul(prm.p2PredationStrength, prm.deltaTime) * localPredators
                   ELSE 0
  IN  moved.energy - Mul(prm.pEnergyDecayRate, prm.deltaTime) - predation

\* prey: energy after decay, eating from B and predation, given the moved agent
PEnergy(moved, b, p2Dens, prm) ==
  LET eats == prm.pEatEnabled > Scale \div 2
      consumeAmount == Min(Mul(prm.pEatAmount, prm.deltaTime), b[EatCell(moved)])
      gain == IF eats THEN Mul(consumeAmount, prm.pEnergyFromEat) ELSE 0
      localPredators == p2Dens[EatCell(moved)]
      predation == IF localPredators > 0
                   THEN Mul(prm.p2PredationStrength, prm.deltaTime) * localPredators
                   ELSE 0
  IN  moved.energy - Mul(prm.pEnergyDecayRate, prm.deltaTime) + gain - predation

\* prey: bField after the moved agent has eaten in place
PEat(moved, b, prm) ==
  IF prm.pEatEnabled > Scale \div 2
  THEN [b EXCEPT ![EatCell(moved)] =
          b[EatCell(moved)] - Min(Mul(prm.pEatAmount, prm.deltaTime), b[EatCell(moved)])]
  ELSE b

\* prey: motion, energy decay, eating and predation; the record before reproduction
PFeed(p, b, p2Dens, prm, inp) ==
  LET desiredVel == <<Mul(inp.dir[1], prm.pSpeed), Mul(inp.dir[2], prm.pSpeed)>>
  IN  Once({[moved EXCEPT !.energy = PEnergy(moved, b, p2Dens, prm)] :
              moved \in {Move(p, desiredVel, prm.pFriction, prm.pSpeed,
                              prm.deltaTime, inp.nan)}})

\* variant of PReproduce: the energy is halved as soon as the agent qualifies,
\* before the search for a free slot
PReproduce_HalvesFirst(particlesIn, particlesOut, prm, idx, inp, fed) ==
  LET wants == prm.pReproduceEnabled > Scale \div 2
                 /\ fed.energy >= prm.pReproduceThreshold /\ fed.state = 1
      startSlot == inp.r0
      free == FreeProbes(particlesIn, startSlot, maxParticles)
      foundSlot == wants /\ free # {}
  IN  Once({Store(IF foundSlot
                  THEN Store(particlesOut,
                             candidateSlot(startSlot, FirstProbe(free), maxParticles),
                             Child(parent, prm.pReproduceSpawnRadius, prm.pSpeed, inp))
                  ELSE particlesOut,
                  idx, Finish(parent, prm.pMinEnergy, prm.pMaxEnergy)) :
              parent \in {[fed EXCEPT !.energy = IF wants THEN fed.energy \div 2
                                                          ELSE fed.energy]}})

\* prey: reproduction, energy cap, starvation, write back
PReproduce(particlesIn, particlesOut, prm, idx, inp, fed) ==
  LET wants == prm.pReproduceEnabled > Scale \div 2
                 /\ fed.energy >= prm.pReproduceThreshold /\ fed.state = 1
      startSlot == inp.r0
      free == FreeProbes(particlesIn, startSlot, maxParticles)
      foundSlot == wants /\ free # {}
  IN  Once({Store(IF foundSlot
                  THEN Store(particlesOut,
                             candidateSlot(startSlot, FirstProbe(free), maxParticles),
                             Child(parent, prm.pReproduceSpawnRadius, prm.pSpeed, inp))
                  ELSE particlesOut,
                  idx, Finish(parent, prm.pMinEnergy, prm.pMaxEnergy)) :
              parent \in {[fed EXCEPT !.energy = IF foundSlot THEN fed.energy \div 2
                                                              ELSE fed.energy]}})

\* the prey update kernel's main, invocation idx: <<output buffer, bField>> afterwards
UpdatePSlot(particlesIn, particlesOut, b, p2Dens, prm, idx, inp) ==
  LET p == particlesIn[idx]
  IN
  IF p.state = 0 THEN <<Store(particlesOut, idx, p), b>>
  ELSE Once({<<PReproduce(particlesIn, particlesOut, prm, idx, inp, fed), PEat(fed, b, prm)>> :
               fed \in {PFeed(p, b, p2Dens, prm, inp)}})

\* variant of AccumulateSlot: the state test is missing, every slot is counted
AccumulateSlot_CountsAll(particles, density, idx, nan) ==
  LET cell == CellOf(particles[idx].pos, nan)
  IN  [density EXCEPT ![cell] = density[cell] + 1]

\* accumulateDensity.wgsl main, invocation idx: the density grid afterwards
AccumulateSlot(particles, density, idx, nan) ==
  IF particles[idx].state = 0 THEN density
  ELSE LET cell == CellOf(particles[idx].pos, nan)
       IN  [density EXCEPT ![cell] = density[cell] + 1]

(* ------------------------------ the state ------------------------------ *)
VARIABLES
  params,          \* SimulationParameters.values (the uniform buffers hold a copy)
  virtualTime,     \* main: this.virtualTime, broadcast as currentTime
  frameCount,      \* engine.frameCount: steps submitted since the last reset
  rBufferIndex, oBufferIndex, mBufferIndex, hBufferIndex, zBufferIndex,
  pBufferIndex, p2BufferIndex,
  rField, oField, mField, hField,      \* <<buffer A, buffer B>> each
  cField, bField, bLongField,
  terrainField, terrainRock,
  particleBuffer, predatorBuffer,     \* <<buffer A, buffer B>> each
  pDensity, p2Density,
  pc,              \* the kernel step() dispatches next; "Idle" between steps
  pending,         \* invocations of the running per-slot kernel not yet executed
  dispatched,      \* history: the kernels dispatched so far in this step
  drawn,           \* history: the inputs each executed invocation of the running kernel drew
  bAtStart,        \* history: bField when the running prey update kernel began
  called,          \* history: the last host operation and its arguments
  isRunning,       \* main: this.isRunning
  scheduled,       \* animate callbacks registered for the next animation frame
  loop,            \* where the host's script is: between tasks, in start(), in a frame
  frameSteps,      \* history: sub-steps executed by the callbacks of the current frame
  frames,          \* history: animation frames begun
  batch,           \* BatchRunner: its fields, run()'s locals and position, its last result
  trial            \* one agent given to the kernels' motion code on a grid of its own

fieldVars == <<rField, oField, mField, hField, cField, bField, bLongField,
               terrainField, terrainRock>>
indexVars == <<rBufferIndex, oBufferIndex, mBufferIndex, hBufferIndex, zBufferIndex,
               pBufferIndex, p2BufferIndex>>
poolVars == <<particleBuffer, predatorBuffer>>
densVars == <<pDensity, p2Density>>
ctlVars == <<pc, pending, dispatched, drawn, bAtStart>>
hostVars == <<params, virtualTime, frameCount>>
\* everything but the host's own records
programVars == <<hostVars, indexVars, fieldVars, poolVars, densVars, ctlVars>>
loopVars == <<isRunning, scheduled, loop, frameSteps, frames>>
extVars == <<called, loopVars, batch, trial>>
vars == <<hostVars, indexVars, fieldVars, poolVars, densVars, ctlVars, extVars>>

\* buffers.getXBufferCurrent(index) / getXBufferNext(index) over a pair <<A, B>>
Current(pair, index) == pair[index + 1]
NextBuf(pair, index) == pair[2 - index]
\* variant of SetNext: the kernel's output is bound to the current buffer
SetNext_InPlace(pair, index, v) == [pair EXCEPT ![index + 1] = v]
SetNext(pair, index, v) == [pair EXCEPT ![2 - index] = v]
\* variant of Swap: the index is left as it is
Swap_Stays(index) == index
Swap(index) == 1 - index

AliveCount(buf) == Cardinality({i \in DOMAIN buf : buf[i].state = 1})
NoDraws == [i \in {} |-> 0]

(* ------------------------- buffer initialisation ----------------------- *)
Fill(v) == [i \in Cells |-> v]

\* how the random positions fall: agent i in column (i + shift) % W, row (i + shift) % H
Layouts == {0, 1}
\* variant of InitialPool: the data array is sized by activeCount when that is larger
InitialPool_SizedByCount(activeCount, capacity, type) ==
  {[i \in 0 .. (Max(activeCount, capacity) - 1) |->
      IF i < activeCount
      THEN [pos |-> <<Scale \div 2 + ((i + shift) % gridW) * Scale,
                      Scale \div 2 + ((i + shift) % gridH) * Scale>>,
            vel |-> <<0, 0>>, energy |-> Scale, type_ |-> type, state |-> 1]
      ELSE ZeroParticle] : shift \in Layouts}

\* the data initializeParticles / initializePredators can write for activeCount
InitialPool(activeCount, capacity, type) ==
  {[i \in 0 .. (capacity - 1) |->
      IF i < activeCount
      THEN [pos |-> <<Scale \div 2 + ((i + shift) % gridW) * Scale,
                      Scale \div 2 + ((i + shift) % gridH) * Scale>>,
            vel |-> <<0, 0>>, energy |-> Scale, type_ |-> type, state |-> 1]
      ELSE ZeroParticle] : shift \in Layouts}

\* initializeTerrainFields(0.0): both height buffers and the bedrock at height 0
InitialZ == Fill(0)
InitialZRock == Fill(0)

\* initializeMField: base 0.001 plus noise within (-0.00025, 0.00025): 0.001
\* to the model's precision
InitialM == Fill(Scale \div (10 * 10 * 10))

(* ------------------------------ parameters ----------------------------- *)
\* the defaults of the parameter table (pCount / p2Count scaled to the model's
\* pool capacity, the vent centre placed in cell 0, deltaTime at its maximum)
DefaultParams ==
  [rCenterX |-> 0, rCenterY |-> 0, rMaxStrength |-> Scale, rDecayRadius |-> Scale,
   rFalloffPower |-> 2, rDiffusionRate |-> 150, rDecayRate |-> 10,
   rAdvectionEnabled |-> 0, rAdvectionVX |-> 500, rAdvectionVY |-> 30,
   o0 |-> 880, oDiffusionRate |-> Scale, reactionRate |-> 2 * Scale, restoreRate |-> 62,
   h0 |-> 0, hDecayRate |-> 20, hDiffusionRate |-> 800,
   mGrowRate |-> 300, mDeathRate |-> 150, bDecayRate |-> 1,
   kBase |-> 800, kAlpha |-> 500, bLongRate |-> 10, mYield |-> 800,
   pCount |-> 1, pFriction |-> 200, pSpeed |-> Scale, pEatEnabled |-> Scale,
   pEatAmount |-> 50, pEnergyDecayRate |-> 3, pEnergyFromEat |-> 100,
   pMinEnergy |-> 100, pMaxEnergy |-> 2 * Scale, pReproduceEnabled |-> Scale,
   pReproduceThreshold |-> 1500, pReproduceSpawnRadius |-> 5 * Scale,
   p2Count |-> 1, p2Friction |-> 250, p2Speed |-> 1200, p2EatEnabled |-> Scale,
   p2EatAmount |-> 150, p2EnergyDecayRate |-> 4, p2EnergyFromEat |-> 200,
   p2MinEnergy |-> 100, p2MaxEnergy |-> 2500, p2ReproduceEnabled |-> Scale,
   p2ReproduceThreshold |-> 1600, p2ReproduceSpawnRadius |-> 6 * Scale,
   p2PredationStrength |-> 15, deltaTime |-> 500, speedMultiplier |-> Scale,
   terrainEnabled |-> Scale, terrainH0 |-> Scale, terrainFlowStrength |-> 80,
   terrainParticleDriftStrength |-> 120]

\* low reproduction thresholds: every initial agent qualifies at once
Breeding ==
  [DefaultParams EXCEPT !.pReproduceThreshold = 500, !.p2ReproduceThreshold = 500,
                        !.pCount = 1, !.p2Count = 1]
\* highest minimum energy, fastest decay, strongest predation, a full predator pool
Starving ==
  [DefaultParams EXCEPT !.pReproduceThreshold = 500, !.p2ReproduceThreshold = 500,
                        !.pMinEnergy = Scale, !.pEnergyDecayRate = 100,
                        !.p2PredationStrength = 800,
                        !.pCount = 1, !.p2Count = maxPredators]
Profiles == {DefaultParams, Breeding, Starving}

(* ----------------------------- construction ---------------------------- *)
\* main.initializeFields: every buffer as its initialize* method writes it
InitFields ==
  /\ rField = <<Fill(0), Fill(0)>>
  /\ oField = <<Fill(params.o0), Fill(params.o0)>>
  /\ cField = Fill(0)
  /\ hField = <<Fill(params.h0), Fill(params.h0)>>
  /\ terrainField = <<InitialZ, InitialZ>>
  /\ terrainRock = InitialZRock
  /\ mField = <<InitialM, InitialM>>
  /\ bField = Fill(0)
  /\ bLongField = Fill(0)
  /\ \E data \in InitialPool(params.pCount, maxParticles, 0) :
        particleBuffer = <<data, data>>
  /\ \E data \in InitialPool(params.p2Count, maxPredators, 1) :
        predatorBuffer = <<data, data>>

\* no host operation has been called yet
InitHost ==
  /\ called = [op |-> "none"]
  /\ isRunning = FALSE
  /\ scheduled = 0
  /\ loop = [mode |-> "idle", inAnimate |-> FALSE, todo |-> 0, calls |-> 0]
  /\ frameSteps = 0
  /\ frames = 0
  /\ batch = [isRunning |-> FALSE, cancelRequested |-> FALSE, at |-> "idle",
              totalSteps |-> 0, sampleEvery |-> 1, completed |-> 0, i |-> 0,
              chunkTarget |-> 0, startFrame |-> 0, stopped |-> FALSE, runs |-> 0,
              lastResult |-> <<>>, dt |-> 0, time |-> 0, sent |-> FALSE]

\* no agent is on trial
NoTrial == [at |-> "none"]
InitExt == InitHost /\ trial = NoTrial

Init ==
  /\ InitExt
  /\ params \in Profiles
  /\ virtualTime = 0
  /\ frameCount = 0
  /\ rBufferIndex = 0 /\ oBufferIndex = 0 /\ mBufferIndex = 0 /\ hBufferIndex = 0
  /\ zBufferIndex = 0 /\ pBufferIndex = 0 /\ p2BufferIndex = 0
  /\ InitFields
  /\ pDensity = Fill(0)
  /\ p2Density = Fill(0)
  /\ pc = "Idle"
  /\ pending = {}
  /\ dispatched = <<>>
  /\ drawn = NoDraws
  /\ bAtStart = Fill(0)

(* ------------------------------ the step ------------------------------- *)
\* kernels with one invocation per agent slot (run one invocation per action)
PerSlot == {"AccumulatePDensity", "UpdateP2", "AccumulateP2Density", "UpdateP"}

\* the running kernel has completed: the next pass starts (or the step ends)
Advance(next) ==
  /\ pc' = next
  /\ pending' = IF next \in PerSlot THEN Slots ELSE {}
  /\ dispatched' = IF next = "Idle" THEN dispatched ELSE Append(dispatched, next)

\* invocation idx of the running per-slot kernel has executed
Invoked(idx, next) ==
  IF pending = {idx}
  THEN Advance(next)
  ELSE pc' = pc /\ pending' = pending \ {idx} /\ UNCHANGED dispatched

\* slot 26 of the parameter buffer as the last sub-step set it: the loop's
\* this.virtualTime, or a batch run's own currentVirtualTime
currentTime == IF batch.sent THEN batch.time ELSE virtualTime

\* the quarter turn the R advection has rotated by at currentTime
Quarter == currentTime \div (3 * Scale)
Z == Current(terrainField, zBufferIndex)
\* clamp outcomes a position can need: a choice only where a component is NaN
NaNFor(pos) == IF is_nan(pos[1]) \/ is_nan(pos[2]) THEN NaNOutcomes ELSE {"nan"}

\* main.animate, one substep: advance the virtual time, then engine.step()
BeginStep ==
  /\ UNCHANGED extVars
  /\ pc = "Idle"
  /\ frameCount < MaxSteps
  /\ virtualTime' = virtualTime + params.deltaTime
  /\ pc' = "UpdateR"
  /\ pending' = {}
  /\ dispatched' = <<"UpdateR">>
  /\ drawn' = NoDraws
  /\ UNCHANGED <<params, frameCount, indexVars, fieldVars, poolVars, densVars, bAtStart>>

UpdateR ==
  /\ UNCHANGED extVars
  /\ pc = "UpdateR"
  /\ rField' = SetNext(rField, rBufferIndex,
                 [i \in Cells |-> UpdateRCell(Current(rField, rBufferIndex), Z, params, Quarter, i)])
  /\ rBufferIndex' = Swap(rBufferIndex)
  /\ Advance("UpdateO")
  /\ UNCHANGED <<hostVars, oBufferIndex, mBufferIndex, hBufferIndex, zBufferIndex,
                 pBufferIndex, p2BufferIndex, oField, mField, hField, cField, bField,
                 bLongField, terrainField, terrainRock, poolVars, densVars, drawn, bAtStart>>

UpdateO ==
  /\ UNCHANGED extVars
  /\ pc = "UpdateO"
  /\ LET oIn == Current(oField, oBufferIndex)
         rCur == Current(rField, rBufferIndex)
         mCur == Current(mField, mBufferIndex)
     IN  /\ oField' = SetNext(oField, oBufferIndex,
                        [i \in Cells |-> UpdateOCell(oIn, rCur, Z, params, i)])
         /\ bField' = [i \in Cells |-> UpdateOCellB(oIn, rCur, mCur, bField, params, i)]
  /\ oBufferIndex' = Swap(oBufferIndex)
  /\ Advance("ComputeC")
  /\ UNCHANGED <<hostVars, rBufferIndex, mBufferIndex, hBufferIndex, zBufferIndex,
                 pBufferIndex, p2BufferIndex, rField, mField, hField, cField,
                 bLongField, terrainField, terrainRock, poolVars, densVars, drawn, bAtStart>>

\* variant of ComputeC: the H update pass is left out of the step
ComputeC_SkipsH ==
  /\ UNCHANGED extVars
  /\ pc = "ComputeC"
  /\ cField' = [i \in Cells |->
                  ComputeCCell(Current(rField, rBufferIndex), Current(oField, oBufferIndex), i)]
  /\ Advance("DiffuseH")
  /\ UNCHANGED <<hostVars, indexVars, rField, oField, mField, hField, bField,
                 bLongField, terrainField, terrainRock, poolVars, densVars, drawn, bAtStart>>

ComputeC ==
  /\ UNCHANGED extVars
  /\ pc = "ComputeC"
  /\ cField' = [i \in Cells |->
                  ComputeCCell(Current(rField, rBufferIndex), Current(oField, oBufferIndex), i)]
  /\ Advance("UpdateH")
  /\ UNCHANGED <<hostVars, indexVars, rField, oField, mField, hField, bField,
                 bLongField, terrainField, terrainRock, poolVars, densVars, drawn, bAtStart>>

UpdateH ==
  /\ UNCHANGED extVars
  /\ pc = "UpdateH"
  /\ hField' = SetNext(hField, hBufferIndex,
                 [i \in Cells |->
                    UpdateHCell(Current(hField, hBufferIndex), Current(rField, rBufferIndex),
                                Current(oField, oBufferIndex), Current(mField, mBufferIndex),
                                params, i)])
  /\ hBufferIndex' = Swap(hBufferIndex)
  /\ Advance("DiffuseH")
  /\ UNCHANGED <<hostVars, rBufferIndex, oBufferIndex, mBufferIndex, zBufferIndex,
                 pBufferIndex, p2BufferIndex, rField, oField, mField, cField, bField,
                 bLongField, terrainField, terrainRock, poolVars, densVars, drawn, bAtStart>>

DiffuseH ==
  /\ UNCHANGED extVars
  /\ pc = "DiffuseH"
  /\ hField' = SetNext(hField, hBufferIndex,
                 [i \in Cells |-> DiffuseHCell(Current(hField, hBufferIndex), params, i)])
  /\ hBufferIndex' = Swap(hBufferIndex)
  /\ Advance("UpdateM")
  /\ UNCHANGED <<hostVars, rBufferIndex, oBufferIndex, mBufferIndex, zBufferIndex,
                 pBufferIndex, p2BufferIndex, rField, oField, mField, cField, bField,
                 bLongField, terrainField, terrainRock, poolVars, densVars, drawn, bAtStart>>

UpdateM ==
  /\ UNCHANGED extVars
  /\ pc = "UpdateM"
  /\ LET mIn == Current(mField, mBufferIndex)
     IN  /\ mField' = SetNext(mField, mBufferIndex,
                        [i \in Cells |-> UpdateMCell(mIn, bField, bLongField, params, i)])
         /\ bField' = [i \in Cells |-> UpdateMCellB(mIn, bField, bLongField, params, i)]
         /\ bLongField' = [i \in Cells |-> UpdateMCellBLong(mIn, bField, bLongField, params, i)]
  /\ mBufferIndex' = Swap(mBufferIndex)
  /\ Advance("ClearPDensity")
  /\ UNCHANGED <<hostVars, rBufferIndex, oBufferIndex, hBufferIndex, zBufferIndex,
                 pBufferIndex, p2BufferIndex, rField, oField, hField, cField,
                 terrainField, terrainRock, poolVars, densVars, drawn, bAtStart>>

\* the clear-density kernel on the prey density grid
ClearPDensity ==
  /\ UNCHANGED extVars
  /\ pc = "ClearPDensity"
  /\ pDensity' = [i \in Cells |-> 0]
  /\ Advance("AccumulatePDensity")
  /\ UNCHANGED <<hostVars, indexVars, fieldVars, poolVars, p2Density, drawn, bAtStart>>

\* one invocation of the scatter kernel over the current prey buffer
AccumulatePDensity ==
  /\ UNCHANGED extVars
  /\ pc = "AccumulatePDensity"
  /\ \E idx \in pending :
     \E nan \in NaNFor(Current(particleBuffer, pBufferIndex)[idx].pos) :
        /\ pDensity' = AccumulateSlot(Current(particleBuffer, pBufferIndex), pDensity, idx, nan)
        /\ Invoked(idx, "ClearNextP2")
  /\ UNCHANGED <<hostVars, indexVars, fieldVars, poolVars, p2Density, drawn, bAtStart>>

\* variant of ClearNextP2: the pass is dispatched but zeroes nothing
ClearNextP2_ClearsNothing ==
  /\ UNCHANGED extVars
  /\ pc = "ClearNextP2"
  /\ UNCHANGED predatorBuffer
  /\ Advance("UpdateP2")
  /\ UNCHANGED <<hostVars, indexVars, fieldVars, particleBuffer, densVars, drawn, bAtStart>>

\* the clear-particle-buffer kernel on the predator buffer about to be written
ClearNextP2 ==
  /\ UNCHANGED extVars
  /\ pc = "ClearNextP2"
  /\ predatorBuffer' = SetNext(predatorBuffer, p2BufferIndex,
                               [i \in 0 .. (maxPredators - 1) |-> ZeroParticle])
  /\ Advance("UpdateP2")
  /\ UNCHANGED <<hostVars, indexVars, fieldVars, particleBuffer, densVars, drawn, bAtStart>>

\* the seeds an invocation can draw: one canonical seed where none is consumed
InputsFor(p) == IF p.state = 0 THEN {Seed(0)} ELSE Inputs

\* one invocation of the predator update kernel; the last one ends the pass
UpdateP2 ==
  /\ UNCHANGED extVars
  /\ pc = "UpdateP2"
  /\ \E idx \in pending :
     LET predatorsIn == Current(predatorBuffer, p2BufferIndex)
     IN  \E seed \in InputsFor(predatorsIn[idx]) :
         \E nan \in NaNFor(predatorsIn[idx].pos) :
           LET inp == [seed EXCEPT !.nan = nan]
           IN  /\ predatorBuffer' =
                    SetNext(predatorBuffer, p2BufferIndex,
                            UpdateP2Slot(predatorsIn, NextBuf(predatorBuffer, p2BufferIndex),
                                         pDensity, Z, params, idx, inp))
               /\ drawn' = Store(drawn, idx, inp)
               /\ p2BufferIndex' = IF pending = {idx} THEN Swap(p2BufferIndex)
                                                      ELSE p2BufferIndex
               /\ Invoked(idx, "ClearP2Density")
  /\ UNCHANGED <<hostVars, rBufferIndex, oBufferIndex, mBufferIndex, hBufferIndex,
                 zBufferIndex, pBufferIndex, fieldVars, particleBuffer, densVars, bAtStart>>

ClearP2Density ==
  /\ UNCHANGED extVars
  /\ pc = "ClearP2Density"
  /\ p2Density' = [i \in Cells |-> 0]
  /\ drawn' = NoDraws
  /\ Advance("AccumulateP2Density")
  /\ UNCHANGED <<hostVars, indexVars, fieldVars, poolVars, pDensity, bAtStart>>

\* one invocation of the scatter kernel over the current (just written) predator buffer
AccumulateP2Density ==
  /\ UNCHANGED extVars
  /\ pc = "AccumulateP2Density"
  /\ \E idx \in pending :
     \E nan \in NaNFor(Current(predatorBuffer, p2BufferIndex)[idx].pos) :
        /\ p2Density' = AccumulateSlot(Current(predatorBuffer, p2BufferIndex), p2Density, idx, nan)
        /\ Invoked(idx, "UpdateP")
  /\ UNCHANGED <<hostVars, indexVars, fieldVars, poolVars, pDensity, drawn, bAtStart>>

\* what an invocation of the prey kernel can read from bField: the invocations
\* of the pass run concurrently and load and store bField without
\* synchronisation, so that a load returns the cell as it is now or as it was
\* before the stores of the invocations that came earlier in the pass
BViews == IF pending = Slots THEN {bField} ELSE {bField, bAtStart}

\* the cells of bField the invocation for agent p stores to
EatCells(p, seen, p2Dens, prm, inp) ==
  IF p.state = 1 /\ prm.pEatEnabled > Scale \div 2
  THEN {EatCell(PFeed(p, seen, p2Dens, prm, inp))}
  ELSE {}

\* one invocation of the prey update kernel; the last one ends the pass and the step
UpdateP ==
  /\ UNCHANGED extVars
  /\ pc = "UpdateP"
  /\ \E idx \in pending :
     LET particlesIn == Current(particleBuffer, pBufferIndex)
     IN  \E seed \in InputsFor(particlesIn[idx]) :
         \E nan \in NaNFor(particlesIn[idx].pos) :
         \E seen \in BViews :
           LET inp == [seed EXCEPT !.nan = nan]
               res == UpdatePSlot(particlesIn, NextBuf(particleBuffer, pBufferIndex),
                                  seen, p2Density, params, idx, inp)
           IN  /\ particleBuffer' = SetNext(particleBuffer, pBufferIndex, res[1])
               /\ bField' = [c \in Cells |->
                               IF c \in EatCells(particlesIn[idx], seen, p2Density, params, inp)
                               THEN res[2][c] ELSE bField[c]]
               /\ bAtStart' = IF pending = Slots THEN bField ELSE bAtStart
               /\ drawn' = Store(drawn, idx, inp)
               /\ pBufferIndex' = IF pending = {idx} THEN Swap(pBufferIndex) ELSE pBufferIndex
               /\ frameCount' = IF pending = {idx} THEN frameCount + 1 ELSE frameCount
               /\ Invoked(idx, "Idle")
  /\ UNCHANGED <<params, virtualTime, rBufferIndex, oBufferIndex, mBufferIndex,
                 hBufferIndex, zBufferIndex, p2BufferIndex, rField, oField, mField, hField,
                 cField, bLongField, terrainField, terrainRock, predatorBuffer, densVars>>

(* --------------------------- host operations --------------------------- *)
\* values a pCount / p2Count change can carry (an imported value is not clamped
\* before it reaches initializeParticles / initializePredators)
CountValues == {0, MaxSlots + 1}

\* main.onParameterChange("pCount", value)
SetPCount ==
  /\ UNCHANGED extVars
  /\ pc = "Idle"
  /\ \E value \in CountValues :
       /\ params' = [params EXCEPT !.pCount = clamp(value, 0, maxParticles)]
       /\ \E data \in InitialPool(value, maxParticles, 0) : particleBuffer' = <<data, data>>
  /\ pBufferIndex' = 0
  /\ drawn' = NoDraws
  /\ UNCHANGED <<virtualTime, frameCount, rBufferIndex, oBufferIndex, mBufferIndex,
                 hBufferIndex, zBufferIndex, p2BufferIndex, fieldVars, predatorBuffer,
                 densVars, pc, pending, dispatched, bAtStart>>

\* main.onParameterChange("p2Count", value)
SetP2Count ==
  /\ UNCHANGED extVars
  /\ pc = "Idle"
  /\ \E value \in CountValues :
       /\ params' = [params EXCEPT !.p2Count = clamp(value, 0, maxPredators)]
       /\ \E data \in InitialPool(value, maxPredators, 1) : predatorBuffer' = <<data, data>>
  /\ p2BufferIndex' = 0
  /\ drawn' = NoDraws
  /\ UNCHANGED <<virtualTime, frameCount, rBufferIndex, oBufferIndex, mBufferIndex,
                 hBufferIndex, zBufferIndex, pBufferIndex, fieldVars, particleBuffer,
                 densVars, pc, pending, dispatched, bAtStart>>

\* variant of Reset: the virtual time is left as it is
Reset_KeepsTime ==
  /\ UNCHANGED extVars
  /\ pc = "Idle"
  /\ frameCount > 0
  /\ UNCHANGED params
  /\ UNCHANGED virtualTime
  /\ frameCount' = 0
  /\ rBufferIndex' = 0 /\ oBufferIndex' = 0 /\ mBufferIndex' = 0 /\ hBufferIndex' = 0
  /\ zBufferIndex' = 0 /\ pBufferIndex' = 0 /\ p2BufferIndex' = 0
  /\ rField' = <<Fill(0), Fill(0)>>
  /\ oField' = <<Fill(params.o0), Fill(params.o0)>>
  /\ cField' = Fill(0)
  /\ hField' = <<Fill(params.h0), Fill(params.h0)>>
  /\ terrainField' = <<InitialZ, InitialZ>>
  /\ terrainRock' = InitialZRock
  /\ mField' = <<InitialM, InitialM>>
  /\ bField' = Fill(0)
  /\ bLongField' = Fill(0)
  /\ \E data \in InitialPool(params.pCount, maxParticles, 0) :
        particleBuffer' = <<data, data>>
  /\ \E data \in InitialPool(params.p2Count, maxPredators, 1) :
        predatorBuffer' = <<data, data>>
  /\ drawn' = NoDraws
  /\ UNCHANGED <<densVars, pc, pending, dispatched, bAtStart>>

\* main.reset: time zero, every buffer reinitialised, every index and the frame count zero
Reset ==
  /\ UNCHANGED extVars
  /\ pc = "Idle"
  /\ frameCount > 0
  /\ UNCHANGED params
  /\ virtualTime' = 0
  /\ frameCount' = 0
  /\ rBufferIndex' = 0 /\ oBufferIndex' = 0 /\ mBufferIndex' = 0 /\ hBufferIndex' = 0
  /\ zBufferIndex' = 0 /\ pBufferIndex' = 0 /\ p2BufferIndex' = 0
  /\ rField' = <<Fill(0), Fill(0)>>
  /\ oField' = <<Fill(params.o0), Fill(params.o0)>>
  /\ cField' = Fill(0)
  /\ hField' = <<Fill(params.h0), Fill(params.h0)>>
  /\ terrainField' = <<InitialZ, InitialZ>>
  /\ terrainRock' = InitialZRock
  /\ mField' = <<InitialM, InitialM>>
  /\ bField' = Fill(0)
  /\ bLongField' = Fill(0)
  /\ \E data \in InitialPool(params.pCount, maxParticles, 0) :
        particleBuffer' = <<data, data>>
  /\ \E data \in InitialPool(params.p2Count, maxPredators, 1) :
        predatorBuffer' = <<data, data>>
  /\ drawn' = NoDraws
  /\ UNCHANGED <<densVars, pc, pending, dispatched, bAtStart>>

Next ==
  \/ BeginStep \/ UpdateR \/ UpdateO \/ ComputeC \/ UpdateH \/ DiffuseH \/ UpdateM
  \/ ClearPDensity \/ AccumulatePDensity \/ ClearNextP2 \/ UpdateP2
  \/ ClearP2Density \/ AccumulateP2Density \/ UpdateP
  \/ SetPCount \/ SetP2Count \/ Reset

Spec == Init /\ [][Next]_vars

(* ------------------- one step from any buffer contents ----------------- *)
\* well fed prey, fast field dynamics: eating gains more than decay costs
Fed ==
  [DefaultParams EXCEPT !.pEnergyDecayRate = 20, !.pEnergyFromEat = 500,
                        !.p2PredationStrength = 800,
                        !.mGrowRate = 5 * Scale, !.kBase = 100, !.bDecayRate = Scale,
                        !.rDiffusionRate = 2 * Scale, !.hDecayRate = Scale,
                        !.restoreRate = Scale, !.mYield = 5 * Scale, !.bLongRate = 2 * Scale,
                        !.pCount = maxParticles, !.p2Count = 0]
AnyProfiles == {Fed, Starving}

\* field contents at the ends of their declared ranges: every cell at the
\* minimum, every cell at the maximum, or the two alternating
FieldPatterns == {"min", "max", "mixed"}
Level(pattern, hi, i) ==
  CASE pattern = "min" -> 0
    [] pattern = "max" -> hi
    [] OTHER -> IF i % 2 = 0 THEN hi ELSE 0
Field(pattern, hi) == [i \in Cells |-> Level(pattern, hi, i)]

\* agent records a buffer can hold: in the grid, outside it, NaN, at low energy
Agent(x, energy, type) ==
  [pos |-> <<x, 0>>, vel |-> <<0, 0>>, energy |-> energy, type_ |-> type, state |-> 1]
AnyAgents(type) ==
  {Agent(Scale \div 2, Scale, type), Agent(Scale \div 2, Scale \div 10, type),
   Agent(NaN, Scale, type), Agent(0 - Scale \div 2, Scale, type),
   Agent(maxX + 2 * Scale, Scale, type)}
AnyPools(type) ==
  {[i \in Slots |-> IF i = 0 THEN a ELSE rest] :
     a \in AnyAgents(type), rest \in {ZeroParticle, Agent(Scale \div 2, Scale, type)}}

InitAny ==
  /\ InitExt
  /\ params \in AnyProfiles
  /\ virtualTime = 0
  /\ frameCount = MaxSteps - 1
  /\ rBufferIndex = 0 /\ oBufferIndex = 0 /\ mBufferIndex = 0 /\ hBufferIndex = 0
  /\ zBufferIndex = 0 /\ pBufferIndex = 0 /\ p2BufferIndex = 0
  /\ \E pattern \in FieldPatterns :
       /\ rField = <<Field(pattern, Scale), Field(pattern, Scale)>>
       /\ oField = <<Field(pattern, Scale), Field(pattern, Scale)>>
       /\ cField = Field(pattern, Scale)
       /\ hField = <<Field(pattern, 10 * Scale), Field(pattern, 10 * Scale)>>
       /\ mField = <<Field(pattern, 10 * Scale), Field(pattern, 10 * Scale)>>
       /\ bField = Field(pattern, 10 * Scale)
       /\ bLongField = Field(pattern, 10 * Scale)
  /\ terrainField = <<InitialZ, InitialZ>>
  /\ terrainRock = InitialZRock
  /\ \E data \in AnyPools(0) : particleBuffer = <<data, data>>
  /\ \E data \in {d \in AnyPools(1) : d[0].energy = Scale} \cup {[i \in Slots |-> ZeroParticle]} :
        predatorBuffer = <<data, data>>
  /\ pDensity = Fill(0)
  /\ p2Density = Fill(0)
  /\ pc = "Idle"
  /\ pending = {}
  /\ dispatched = <<>>
  /\ drawn = NoDraws
  /\ bAtStart = Fill(0)

NextStep ==
  \/ BeginStep \/ UpdateR \/ UpdateO \/ ComputeC \/ UpdateH \/ DiffuseH \/ UpdateM
  \/ ClearPDensity \/ AccumulatePDensity \/ ClearNextP2 \/ UpdateP2
  \/ ClearP2Density \/ AccumulateP2Density \/ UpdateP

SpecStep == InitAny /\ [][NextStep]_vars

(* ------------------------- parameter operations ------------------------ *)
\* Math.min / Math.max: NaN when an operand is NaN
MathMin(a, b) == IF is_nan(a) \/ is_nan(b) THEN NaN ELSE Min(a, b)
MathMax(a, b) == IF is_nan(a) \/ is_nan(b) THEN NaN ELSE Max(a, b)

\* the declared <<min, max>> of every parameter the model keeps (the counts in
\* slots with the pool capacity as maximum, rFalloffPower in whole exponents)
PARAMETER_DEFS ==
  [rCenterX |-> <<0, 512 * Scale>>, rCenterY |-> <<0, 512 * Scale>>,
   rMaxStrength |-> <<0, Scale>>, rDecayRadius |-> <<Scale, 200 * Scale>>,
   rFalloffPower |-> <<1, 5>>, rDiffusionRate |-> <<0, 2 * Scale>>,
   rDecayRate |-> <<0, Scale>>, rAdvectionEnabled |-> <<0, Scale>>,
   rAdvectionVX |-> <<0 - Scale \div 2, Scale \div 2>>,
   rAdvectionVY |-> <<0 - Scale \div 2, Scale \div 2>>,
   o0 |-> <<0, Scale>>, oDiffusionRate |-> <<0, 2 * Scale>>,
   reactionRate |-> <<0, 2 * Scale>>, restoreRate |-> <<0, Scale>>,
   h0 |-> <<0, Scale>>, hDecayRate |-> <<0, Scale>>, hDiffusionRate |-> <<0, Scale>>,
   mGrowRate |-> <<0, 5 * Scale>>, mDeathRate |-> <<0, Scale>>,
   bDecayRate |-> <<0, Scale>>, kBase |-> <<Scale \div 10, 10 * Scale>>,
   kAlpha |-> <<0, 5 * Scale>>, bLongRate |-> <<0, 2 * Scale>>,
   mYield |-> <<0, 5 * Scale>>,
   pCount |-> <<0, maxParticles>>, pFriction |-> <<0, 2 * Scale>>,
   pSpeed |-> <<0, 5 * Scale>>, pEatEnabled |-> <<0, Scale>>,
   pEatAmount |-> <<0, Scale \div 20>>, pEnergyDecayRate |-> <<0, Scale \div 10>>,
   pEnergyFromEat |-> <<0, Scale \div 2>>, pMinEnergy |-> <<0, Scale>>,
   pMaxEnergy |-> <<Scale \div 2, 5 * Scale>>, pReproduceEnabled |-> <<0, Scale>>,
   pReproduceThreshold |-> <<Scale \div 2, 3 * Scale>>,
   pReproduceSpawnRadius |-> <<Scale, 20 * Scale>>,
   p2Count |-> <<0, maxPredators>>, p2Friction |-> <<0, 2 * Scale>>,
   p2Speed |-> <<0, 5 * Scale>>, p2EatEnabled |-> <<0, Scale>>,
   p2EatAmount |-> <<0, Scale \div 2>>, p2EnergyDecayRate |-> <<0, Scale \div 10>>,
   p2EnergyFromEat |-> <<0, Scale \div 2>>, p2MinEnergy |-> <<0, Scale>>,
   p2MaxEnergy |-> <<Scale \div 2, 5 * Scale>>, p2ReproduceEnabled |-> <<0, Scale>>,
   p2ReproduceThreshold |-> <<Scale \div 2, 3 * Scale>>,
   p2ReproduceSpawnRadius |-> <<Scale, 20 * Scale>>,
   p2PredationStrength |-> <<0, (8 * Scale) \div 10>>,
   deltaTime |-> <<Scale \div (10 * 10 * 10), Scale \div 2>>,
   speedMultiplier |-> <<Scale, 30 * Scale>>,
   terrainEnabled |-> <<0, Scale>>, terrainH0 |-> <<Scale \div 20, 10 * Scale>>,
   terrainFlowStrength |-> <<0, 2 * Scale>>,
   terrainParticleDriftStrength |-> <<0, 2 * Scale>>]

\* PARAMETER_DEFS.find(d => d.name === name): the range, or <<>> for undefined
getDefinition(name) ==
  IF name \in DOMAIN PARAMETER_DEFS THEN PARAMETER_DEFS[name] ELSE <<>>

\* variant of set: a value is stored under whatever name it comes with
set_StoresUnknown(values, name, value) ==
  [n \in (DOMAIN values) \cup {name} |->
     IF n # name THEN values[n]
     ELSE IF getDefinition(name) = <<>> THEN value
     ELSE MathMax(getDefinition(name)[1], MathMin(getDefinition(name)[2], value))]

\* SimulationParameters.set(name, value): the stored values after the call
set(values, name, value) ==
  IF getDefinition(name) = <<>>
  THEN values
  ELSE [values EXCEPT
          ![name] = MathMax(getDefinition(name)[1], MathMin(getDefinition(name)[2], value))]

\* the part of the state a parameter change can touch
HostState ==
  [params |-> params, oField |-> oField, hField |-> hField,
   particleBuffer |-> particleBuffer, pBufferIndex |-> pBufferIndex,
   predatorBuffer |-> predatorBuffer, p2BufferIndex |-> p2BufferIndex]

\* main.onParameterChange(name, value): the states it can leave
onParameterChange(st, name, value) ==
  CASE name = "o0" -> {[st EXCEPT !.oField = <<Fill(value), Fill(value)>>]}
    [] name = "h0" -> {[st EXCEPT !.hField = <<Fill(value), Fill(value)>>]}
    [] name = "pCount" ->
         {[st EXCEPT !.particleBuffer = <<data, data>>, !.pBufferIndex = 0] :
            data \in InitialPool(value, maxParticles, 0)}
    [] name = "p2Count" ->
         {[st EXCEPT !.predatorBuffer = <<data, data>>, !.p2BufferIndex = 0] :
            data \in InitialPool(value, maxPredators, 1)}
    [] OTHER -> {st}

\* the host state becomes st
Becomes(st) ==
  /\ params' = st.params
  /\ oField' = st.oField
  /\ hField' = st.hField
  /\ particleBuffer' = st.particleBuffer
  /\ pBufferIndex' = st.pBufferIndex
  /\ predatorBuffer' = st.predatorBuffer
  /\ p2BufferIndex' = st.p2BufferIndex
  /\ UNCHANGED <<virtualTime, frameCount, rBufferIndex, oBufferIndex, mBufferIndex,
                 hBufferIndex, zBufferIndex, rField, mField, cField, bField, bLongField,
                 terrainField, terrainRock, densVars, pc, pending, dispatched, drawn,
                 bAtStart>>

\* parameter names the host operations are tried with: the four whose change
\* reinitialises a buffer, and a name that is not declared
DeclaredNames == {"o0", "h0", "pCount", "p2Count"}
UnknownNames == {"unknownParam"}
\* values a control delivers: the slider, the number field and the wheel all
\* hand over a value of the declared range
ControlValues(name) == {getDefinition(name)[1], getDefinition(name)[2]}
\* values an imported bundle can carry for a key: a value above the declared
\* range, or one that is not a number
ImportValues(name) ==
  IF getDefinition(name) = <<>> THEN {Scale} ELSE {NaN, getDefinition(name)[2] + Scale}
\* most keys in an imported bundle
MaxBundle == 2
ImportEntries ==
  UNION {{<<name, value>> : value \in ImportValues(name)} :
           name \in DeclaredNames \cup UnknownNames}
\* the bundles (keys of a JSON object are distinct), in the order of their entries
Bundles ==
  {b \in UNION {[1 .. n -> ImportEntries] : n \in 1 .. MaxBundle} :
     \A i, j \in DOMAIN b : i # j => b[i][1] # b[j][1]}
KeysOf(bundle) == {bundle[i][1] : i \in DOMAIN bundle}

\* a control's input handler: parameters.set, then onParameterChange
ControlInput ==
  /\ pc = "Idle"
  /\ \E name \in DeclaredNames :
       \E value \in ControlValues(name) :
          /\ \E st \in onParameterChange([HostState EXCEPT !.params = set(params, name, value)],
                                         name, value) : Becomes(st)
          /\ called' = [op |-> "control", names |-> {name}]
  /\ UNCHANGED <<loopVars, batch, trial>>

RECURSIVE importParameters(_, _)
\* Controls.importParameters: the states the entries of the bundle, taken in
\* order, can leave (an entry whose key has no definition is skipped)
importParameters(st, bundle) ==
  IF bundle = <<>>
  THEN {st}
  ELSE UNION {importParameters(r, Tail(bundle)) :
                r \in (IF getDefinition(Head(bundle)[1]) = <<>>
                       THEN {st}
                       ELSE onParameterChange(
                              [st EXCEPT !.params = set(st.params, Head(bundle)[1], Head(bundle)[2])],
                              Head(bundle)[1], Head(bundle)[2]))}

ImportParameters ==
  /\ pc = "Idle"
  /\ \E bundle \in Bundles :
       /\ \E st \in importParameters(HostState, bundle) : Becomes(st)
       /\ called' = [op |-> "import", names |-> KeysOf(bundle)]
  /\ UNCHANGED <<loopVars, batch, trial>>

\* a state between two steps: an odd or even number of steps has run, the two
\* buffers of a pair differ, the pools hold agents
InitIdle ==
  /\ InitExt
  /\ params = DefaultParams
  /\ virtualTime = 0
  /\ frameCount = MaxSteps
  /\ \E odd \in {0, 1} :
       /\ rBufferIndex = odd /\ oBufferIndex = odd /\ mBufferIndex = odd
       /\ pBufferIndex = odd /\ p2BufferIndex = odd
  /\ hBufferIndex = 0 /\ zBufferIndex = 0
  /\ rField = <<Field("mixed", Scale), Field("max", Scale)>>
  /\ oField = <<Field("mixed", Scale), Field("max", Scale)>>
  /\ cField = Field("mixed", Scale)
  /\ hField = <<Field("mixed", 10 * Scale), Field("max", 10 * Scale)>>
  /\ mField = <<Field("mixed", 10 * Scale), Field("max", 10 * Scale)>>
  /\ bField = Field("mixed", 10 * Scale)
  /\ bLongField = Field("mixed", 10 * Scale)
  /\ terrainField = <<InitialZ, InitialZ>>
  /\ terrainRock = InitialZRock
  /\ \E data \in InitialPool(1, maxParticles, 0) :
        particleBuffer = <<data, [i \in Slots |-> ZeroParticle]>>
  /\ \E data \in InitialPool(1, maxPredators, 1) :
        predatorBuffer = <<[i \in Slots |-> ZeroParticle], data>>
  /\ pDensity = Fill(0)
  /\ p2Density = Fill(0)
  /\ pc = "Idle"
  /\ pending = {}
  /\ dispatched = <<>>
  /\ drawn = NoDraws
  /\ bAtStart = Fill(0)

NextParams == ControlInput \/ ImportParameters

SpecParams == InitIdle /\ [][NextParams]_vars

(* --------------------------- the animation loop ------------------------ *)
\* most animation frames, and most animate callbacks waiting for one frame
MaxFrames == 2
MaxCallbacks == 2

\* everything a sub-step and the passes of the step leave to the loop
gpuVars == <<params, frameCount, indexVars, fieldVars, poolVars, densVars, bAtStart>>

\* animate, up to its loop: return if not running, else speedMultiplier sub-steps
EnterAnimate(mode, calls) ==
  loop' = [mode |-> mode, inAnimate |-> TRUE,
           todo |-> params.speedMultiplier \div Scale, calls |-> calls]

\* main.pause
Pause ==
  /\ loop.mode = "idle"
  /\ isRunning' = FALSE
  /\ UNCHANGED <<trial, called, batch, scheduled, loop, frameSteps, frames, programVars>>

\* main.start: running, then animate() at once, within the handler
Start ==
  /\ loop.mode = "idle"
  /\ scheduled < MaxCallbacks
  /\ isRunning' = TRUE
  /\ EnterAnimate("start", 0)
  /\ UNCHANGED <<trial, called, batch, scheduled, frameSteps, frames, programVars>>

\* main.toggleSimulation
toggleSimulation == IF isRunning THEN Pause ELSE Start

\* main.reset, called between two tasks of the host
ResetBetweenTasks == loop.mode = "idle" /\ Reset

\* one pass of animate's loop: advance the virtual time, then engine.step()
Substep ==
  /\ loop.inAnimate /\ loop.todo > 0
  /\ pc = "Idle"
  /\ virtualTime' = virtualTime + params.deltaTime
  /\ pc' = "UpdateR"
  /\ pending' = {}
  /\ dispatched' = <<"UpdateR">>
  /\ drawn' = NoDraws
  /\ loop' = [loop EXCEPT !.todo = loop.todo - 1]
  /\ batch' = [batch EXCEPT !.sent = FALSE]
  /\ frameSteps' = IF loop.mode = "frame" THEN frameSteps + 1 ELSE frameSteps
  /\ UNCHANGED <<trial, called, isRunning, scheduled, frames, gpuVars>>

\* the end of animate: requestAnimationFrame(() => this.animate())
AnimateReturn ==
  /\ loop.inAnimate /\ loop.todo = 0
  /\ pc = "Idle"
  /\ scheduled' = scheduled + 1
  /\ loop' = [loop EXCEPT !.inAnimate = FALSE,
                          !.mode = IF loop.mode = "start" THEN "idle" ELSE loop.mode]
  /\ UNCHANGED <<trial, called, batch, isRunning, frameSteps, frames, programVars>>

\* an animation frame begins: the callbacks registered so far will run in it
BeginFrame ==
  /\ loop.mode = "idle"
  /\ scheduled > 0
  /\ frames < MaxFrames
  /\ loop' = [mode |-> "frame", inAnimate |-> FALSE, todo |-> 0, calls |-> scheduled]
  /\ scheduled' = 0
  /\ frameSteps' = 0
  /\ frames' = frames + 1
  /\ UNCHANGED <<trial, called, batch, isRunning, programVars>>

\* the frame runs its next callback, animate
FrameCallback ==
  /\ loop.mode = "frame" /\ ~loop.inAnimate /\ loop.calls > 0
  /\ IF isRunning
     THEN EnterAnimate("frame", loop.calls - 1)
     ELSE loop' = [loop EXCEPT !.calls = loop.calls - 1]
  /\ UNCHANGED <<trial, called, batch, isRunning, scheduled, frameSteps, frames, programVars>>

\* every callback of the frame has run
EndFrame ==
  /\ loop.mode = "frame" /\ ~loop.inAnimate /\ loop.calls = 0
  /\ loop' = [loop EXCEPT !.mode = "idle"]
  /\ UNCHANGED <<trial, called, batch, isRunning, scheduled, frameSteps, frames, programVars>>

\* no agents, one or two sub-steps per frame
LoopProfiles ==
  {[DefaultParams EXCEPT !.pCount = 0, !.p2Count = 0, !.speedMultiplier = k * Scale] :
     k \in 1 .. 2}

InitLoop ==
  /\ InitExt
  /\ params \in LoopProfiles
  /\ virtualTime = 0
  /\ frameCount = 0
  /\ rBufferIndex = 0 /\ oBufferIndex = 0 /\ mBufferIndex = 0 /\ hBufferIndex = 0
  /\ zBufferIndex = 0 /\ pBufferIndex = 0 /\ p2BufferIndex = 0
  /\ InitFields
  /\ pDensity = Fill(0)
  /\ p2Density = Fill(0)
  /\ pc = "Idle"
  /\ pending = {}
  /\ dispatched = <<>>
  /\ drawn = NoDraws
  /\ bAtStart = Fill(0)

\* start() is called while stopped only: by initialize and by toggleSimulation
NextLoop ==
  \/ toggleSimulation \/ Pause \/ ResetBetweenTasks
  \/ BeginFrame \/ FrameCallback \/ Substep \/ AnimateReturn \/ EndFrame
  \/ UpdateR \/ UpdateO \/ ComputeC \/ UpdateH \/ DiffuseH \/ UpdateM
  \/ ClearPDensity \/ AccumulatePDensity \/ ClearNextP2 \/ UpdateP2
  \/ ClearP2Density \/ AccumulateP2Density \/ UpdateP

SpecLoop == InitLoop /\ [][NextLoop]_vars

(* ------------------------------ batch runs ----------------------------- *)
\* sub-steps per chunk (the program: 512), most steps a run is asked for, most runs
BATCH_CHUNK_SIZE == 2
MaxBatchSteps == 3
MaxRuns == 2
\* values of the sampling interval: every step, or never within the runs tried
SampleValues == {1, MaxBatchSteps + 1}

\* variant of chunkTarget: a chunk is always a whole one
chunkTarget_Whole(b) == BATCH_CHUNK_SIZE
\* the size of the next chunk
chunkTarget(b) == Min(b.totalSteps - b.completed, BATCH_CHUNK_SIZE)

\* the head of run()'s while loop: another chunk, or the final statistics
LoopHead(b) ==
  IF b.completed < b.totalSteps /\ ~b.cancelRequested
  THEN [b EXCEPT !.at = "chunk", !.i = 0, !.chunkTarget = chunkTarget(b)]
  ELSE [b EXCEPT !.at = "finalStats"]

\* BatchRunner.run, up to its first await: requested steps floored and at least
\* 1, the interactive simulation paused, the flags set, dt read once and the
\* run's own time started at the host's (startFrame records the engine's step
\* count at the call)
BatchRun ==
  /\ batch.at = "idle" /\ ~batch.isRunning
  /\ loop.mode = "idle" /\ pc = "Idle"
  /\ batch.runs < MaxRuns
  /\ \E steps \in 0 .. MaxBatchSteps, sampleEvery \in SampleValues :
       batch' = [batch EXCEPT !.isRunning = TRUE, !.cancelRequested = FALSE,
                              !.at = "initialStats", !.totalSteps = Max(1, steps),
                              !.sampleEvery = sampleEvery, !.completed = 0, !.i = 0,
                              !.chunkTarget = 0, !.startFrame = frameCount,
                              !.stopped = FALSE, !.runs = batch.runs + 1,
                              !.dt = params.deltaTime, !.time = virtualTime]
  /\ isRunning' = FALSE
  /\ UNCHANGED <<trial, called, scheduled, loop, frameSteps, frames, programVars>>

\* BatchRunner.stop, called while run() waits (stopped records that it was)
BatchStop ==
  /\ batch.at \in {"initialStats", "sample", "yield", "finalStats"}
  /\ batch.isRunning
  /\ ~batch.cancelRequested
  /\ batch' = [batch EXCEPT !.cancelRequested = TRUE, !.stopped = TRUE]
  /\ UNCHANGED <<trial, called, loopVars, programVars>>

\* the initial sample has been computed: the while loop is entered
BatchBegin ==
  /\ batch.at = "initialStats"
  /\ batch' = LoopHead(batch)
  /\ UNCHANGED <<trial, called, loopVars, programVars>>

\* one pass of the chunk's for loop: the run's time advanced by the dt read at
\* the start and given to the kernels, engine.step(), completed++, and a sample
\* awaited when completed is a multiple of sampleEvery
BatchSubstep ==
  /\ batch.at = "chunk" /\ batch.i < batch.chunkTarget
  /\ pc = "Idle"
  /\ UNCHANGED virtualTime
  /\ pc' = "UpdateR"
  /\ pending' = {}
  /\ dispatched' = <<"UpdateR">>
  /\ drawn' = NoDraws
  /\ batch' = [batch EXCEPT !.completed = batch.completed + 1, !.i = batch.i + 1,
                            !.time = batch.time + batch.dt, !.sent = TRUE,
                            !.at = IF (batch.completed + 1) % batch.sampleEvery = 0
                                   THEN "sample" ELSE "chunk"]
  /\ UNCHANGED <<trial, called, loopVars, gpuVars>>

\* the sample's statistics have been read back: the for loop goes on
BatchSampled ==
  /\ batch.at = "sample"
  /\ pc = "Idle"
  /\ batch' = [batch EXCEPT !.at = "chunk"]
  /\ UNCHANGED <<trial, called, loopVars, programVars>>

\* the chunk is done: the progress is shown and run() yields to the host
BatchChunkEnd ==
  /\ batch.at = "chunk" /\ batch.i = batch.chunkTarget
  /\ pc = "Idle"
  /\ batch' = [batch EXCEPT !.at = "yield"]
  /\ UNCHANGED <<trial, called, loopVars, programVars>>

\* run() resumes after the yield, at the head of the while loop
BatchResume ==
  /\ batch.at = "yield"
  /\ batch' = LoopHead(batch)
  /\ UNCHANGED <<trial, called, loopVars, programVars>>

\* the final statistics have been read back: the flags cleared, the result set
\* (finalStats is the step count the final sample was taken at; the elapsed
\* wall-clock time is left out), the run's time handed back to the host
BatchFinish ==
  /\ batch.at = "finalStats"
  /\ pc = "Idle"
  /\ virtualTime' = batch.time
  /\ batch' = [batch EXCEPT
                 !.isRunning = FALSE, !.cancelRequested = FALSE, !.at = "idle",
                 !.sent = FALSE,
                 !.lastResult = [totalSteps |-> batch.completed,
                                 requestedSteps |-> batch.totalSteps,
                                 finalStats |-> frameCount,
                                 progressText |-> IF batch.cancelRequested
                                                  THEN "Stopped" ELSE "Done"]]
  /\ UNCHANGED <<trial, called, loopVars, params, frameCount, indexVars, fieldVars,
                 poolVars, densVars, ctlVars>>

\* what run() does by itself once it has been called or resumed
BatchProgress ==
  \/ BatchBegin \/ BatchSubstep \/ BatchSampled \/ BatchChunkEnd \/ BatchResume
  \/ BatchFinish

\* the passes of a step
Passes ==
  {"UpdateR", "UpdateO", "ComputeC", "UpdateH", "DiffuseH", "UpdateM",
   "ClearPDensity", "AccumulatePDensity", "ClearNextP2", "UpdateP2",
   "ClearP2Density", "AccumulateP2Density", "UpdateP"}

\* the submitted work moves on: a kernel, or one of its invocations, completes
\* (every kernel action changes pc or pending, and no other action does while
\* a step is in flight)
GpuProgress ==
  /\ pc # "Idle"
  /\ \E next \in Passes \cup {"Idle"}, left \in SUBSET Slots :
       /\ pc' = next
       /\ pending' = left

NextBatch ==
  \/ BatchRun \/ BatchStop
  \/ BatchBegin \/ BatchSubstep \/ BatchSampled \/ BatchChunkEnd \/ BatchResume
  \/ BatchFinish
  \/ UpdateR \/ UpdateO \/ ComputeC \/ UpdateH \/ DiffuseH \/ UpdateM
  \/ ClearPDensity \/ AccumulatePDensity \/ ClearNextP2 \/ UpdateP2
  \/ ClearP2Density \/ AccumulateP2Density \/ UpdateP

SpecBatch == InitLoop /\ [][NextBatch]_vars

\* the host resumes an awaiting run(), and the GPU executes what is submitted
SpecBatchLive == SpecBatch /\ WF_vars(BatchProgress) /\ WF_<<pc, pending>>(GpuProgress)

(* --------------------- the host while a batch runs --------------------- *)
\* the deltaTime control's input handler: parameters.set, then onParameterChange
DeltaTimeInput ==
  /\ pc = "Idle"
  /\ \E value \in ControlValues("deltaTime") :
       /\ value # params.deltaTime
       /\ \E st \in onParameterChange([HostState EXCEPT
                                         !.params = set(params, "deltaTime", value)],
                                      "deltaTime", value) : Becomes(st)
       /\ called' = [op |-> "control", names |-> {"deltaTime"}]
  /\ UNCHANGED <<loopVars, batch, trial>>

\* the host's thread is free for a task: no animation frame is being served and
\* run() is not inside a chunk (it is not running, or waits at an await)
HostFree == loop.mode = "idle" /\ batch.at # "chunk"

\* a batch run during which the time step control is used: the control's
\* handler runs while run() is not inside a chunk
NextBatchDt == NextBatch \/ (batch.at # "chunk" /\ DeltaTimeInput)

SpecBatchDt == InitLoop /\ [][NextBatchDt]_vars

\* most steps the engine has run since construction or the last reset
MaxHostSteps == 2

\* the host is free and a batch run is in progress
HostWindow == HostFree /\ batch.isRunning

\* the tasks the host serves while free: the Run button (one run), and while the
\* run is in progress the other buttons, an animation frame, the Stop button
\* and the continuations of run(); run() inside a chunk (its for loop up to the
\* next await); the callbacks of an animation frame; the passes of a step
NextHost ==
  \/ HostFree /\ batch.runs = 0 /\ BatchRun
  \/ HostWindow /\ toggleSimulation
  \/ HostWindow /\ Pause
  \/ HostWindow /\ ResetBetweenTasks
  \/ HostWindow /\ BeginFrame
  \/ HostWindow /\ BatchStop
  \/ HostWindow /\ BatchBegin
  \/ HostWindow /\ BatchSampled
  \/ HostWindow /\ BatchResume
  \/ HostWindow /\ BatchFinish
  \/ loop.mode = "idle" /\ frameCount < MaxHostSteps /\ BatchSubstep
  \/ loop.mode = "idle" /\ BatchChunkEnd
  \/ FrameCallback \/ AnimateReturn \/ EndFrame
  \/ frameCount < MaxHostSteps /\ Substep
  \/ UpdateR \/ UpdateO \/ ComputeC \/ UpdateH \/ DiffuseH \/ UpdateM
  \/ ClearPDensity \/ AccumulatePDensity \/ ClearNextP2 \/ UpdateP2
  \/ ClearP2Density \/ AccumulateP2Density \/ UpdateP

SpecHost == InitLoop /\ [][NextHost]_vars

(* ------------------------ the agents' motion code ---------------------- *)
\* largest grid of a trial, in cells
TrialGridW == 4
TrialGridH == 3

\* where a trial starts: one step outside the left wall moving out, one step
\* outside the right wall moving out, inside the grid moving up, at rest
TrialStarts(w, h) ==
  {[pos |-> <<0 - Scale, (h * Scale) \div 2>>, vel |-> <<0 - Scale, 0>>],
   [pos |-> <<w * Scale, (h * Scale) \div 2>>, vel |-> <<Scale, 0>>],
   [pos |-> <<Scale, 0>>, vel |-> <<0, 0 - Scale>>],
   [pos |-> <<Scale, 0>>, vel |-> <<0, 0>>]}

\* the inputs of a trial: grid size, friction, speed, time step, steering
\* direction and the agent (energy, type and state as initializeParticles sets)
Trials ==
  UNION {{[at |-> "in", gridW |-> w, gridH |-> h, friction |-> f, speed |-> sp,
           dt |-> dt, dir |-> d, start |-> st,
           p |-> [pos |-> st.pos, vel |-> st.vel, energy |-> Scale, type_ |-> 0,
                  state |-> 1]] :
            f \in {0, Scale \div 2}, sp \in {Scale \div 4, Scale \div 2, Scale},
            dt \in {Scale \div 2, Scale}, d \in {1, 2, 3}, st \in TrialStarts(w, h)} :
         w \in 2 .. TrialGridW, h \in 2 .. TrialGridH}

\* lines 197-237 of the prey kernel (203-238 of the predator kernel) applied to
\* the agent: smoothing towards dir * speed, speed limit, integration, reflection
TrialMove ==
  /\ trial.at = "in"
  /\ trial' = [trial EXCEPT
       !.at = "out",
       !.p = MoveIn(trial.p,
                    <<Mul(Dirs[trial.dir][1], trial.speed), Mul(Dirs[trial.dir][2], trial.speed)>>,
                    trial.friction, trial.speed, trial.dt, "nan",
                    (trial.gridW - 1) * Scale, (trial.gridH - 1) * Scale)]
  /\ UNCHANGED <<called, loopVars, batch, programVars>>

InitTrial ==
  /\ InitHost
  /\ trial \in Trials
  /\ params = DefaultParams
  /\ virtualTime = 0
  /\ frameCount = 0
  /\ rBufferIndex = 0 /\ oBufferIndex = 0 /\ mBufferIndex = 0 /\ hBufferIndex = 0
  /\ zBufferIndex = 0 /\ pBufferIndex = 0 /\ p2BufferIndex = 0
  /\ InitFields
  /\ pDensity = Fill(0)
  /\ p2Density = Fill(0)
  /\ pc = "Idle"
  /\ pending = {}
  /\ dispatched = <<>>
  /\ drawn = NoDraws
  /\ bAtStart = Fill(0)

SpecTrial == InitTrial /\ [][TrialMove]_vars

(* ------------------- one predator pass in a larger pool ---------------- *)
\* capacity of the pool of a pass
SpawnSlots == 3

\* a predator with the given energy in the cell of slot i
SpawnPredator(i, energy) ==
  [pos |-> <<Scale \div 2 + (i % gridW) * Scale, Scale \div 2 + (i % gridH) * Scale>>,
   vel |-> <<0, 0>>, energy |-> energy, type_ |-> 1, state |-> 1]

\* the input pools of a pass: every slot free, or holding a predator below or
\* above the reproduction threshold; the output pool has been cleared
Spawns ==
  {[at |-> "spawn",
    bufIn |-> [i \in 0 .. (SpawnSlots - 1) |->
                 IF e[i] = 0 THEN ZeroParticle ELSE SpawnPredator(i, e[i])],
    out |-> [i \in 0 .. (SpawnSlots - 1) |-> ZeroParticle],
    left |-> 0 .. (SpawnSlots - 1), r0 |-> <<>>] :
     e \in [0 .. (SpawnSlots - 1) -> {0, Scale, 2 * Scale}]}

\* one invocation of the predator kernel of the pass, with the start slot its
\* seed gives; the invocations run in any order
SpawnInvoke ==
  /\ trial.at = "spawn"
  /\ \E idx \in trial.left, k \in 0 .. (SpawnSlots - 1) :
       trial' = [trial EXCEPT
                   !.out = UpdateP2SlotIn(trial.bufIn, trial.out, pDensity, Z, params,
                                          idx, Seed(k), SpawnSlots),
                   !.left = trial.left \ {idx},
                   !.r0 = Store(trial.r0, idx, k)]
  /\ UNCHANGED <<called, loopVars, batch, programVars>>

InitSpawn ==
  /\ InitHost
  /\ trial \in Spawns
  /\ params = DefaultParams
  /\ virtualTime = 0
  /\ frameCount = 0
  /\ rBufferIndex = 0 /\ oBufferIndex = 0 /\ mBufferIndex = 0 /\ hBufferIndex = 0
  /\ zBufferIndex = 0 /\ pBufferIndex = 0 /\ p2BufferIndex = 0
  /\ InitFields
  /\ pDensity = Fill(0)
  /\ p2Density = Fill(0)
  /\ pc = "Idle"
  /\ pending = {}
  /\ dispatched = <<>>
  /\ drawn = NoDraws
  /\ bAtStart = Fill(0)

SpecSpawn == InitSpawn /\ [][SpawnInvoke]_vars

(* --------------------------- the collapse run -------------------------- *)
\* steps of the run
RunSteps == 12

\* no predators, n prey that neither eat nor reproduce, decay 1 per unit of
\* time, dt = 0.1, minimum energy 0.1 (the values as the kernels are given them)
CollapseParams(n, speed) ==
  [DefaultParams EXCEPT !.pCount = n, !.p2Count = 0,
                        !.pReproduceEnabled = 0, !.pEatEnabled = 0,
                        !.pEnergyDecayRate = Scale, !.deltaTime = Scale \div 10,
                        !.pMinEnergy = Scale \div 10, !.pSpeed = speed]

\* a partly filled pool of moving prey, a full pool of prey at rest
CollapseProfiles ==
  {CollapseParams(1, DefaultParams.pSpeed), CollapseParams(maxParticles, 0)}

InitCollapse ==
  /\ InitExt
  /\ params \in CollapseProfiles
  /\ virtualTime = 0
  /\ frameCount = 0
  /\ rBufferIndex = 0 /\ oBufferIndex = 0 /\ mBufferIndex = 0 /\ hBufferIndex = 0
  /\ zBufferIndex = 0 /\ pBufferIndex = 0 /\ p2BufferIndex = 0
  /\ InitFields
  /\ pDensity = Fill(0)
  /\ p2Density = Fill(0)
  /\ pc = "Idle"
  /\ pending = {}
  /\ dispatched = <<>>
  /\ drawn = NoDraws
  /\ bAtStart = Fill(0)

\* main.animate, one substep of the run: advance the virtual time, engine.step()
RunStep ==
  /\ pc = "Idle"
  /\ frameCount < RunSteps
  /\ virtualTime' = virtualTime + params.deltaTime
  /\ pc' = "UpdateR"
  /\ pending' = {}
  /\ dispatched' = <<"UpdateR">>
  /\ drawn' = NoDraws
  /\ UNCHANGED <<extVars, gpuVars>>

NextCollapse ==
  \/ RunStep
  \/ UpdateR \/ UpdateO \/ ComputeC \/ UpdateH \/ DiffuseH \/ UpdateM
  \/ ClearPDensity \/ AccumulatePDensity \/ ClearNextP2 \/ UpdateP2
  \/ ClearP2Density \/ AccumulateP2Density \/ UpdateP

SpecCollapse == InitCollapse /\ [][NextCollapse]_vars

\* the host keeps stepping, and the GPU executes what is submitted
SpecCollapseLive ==
  SpecCollapse /\ WF_vars(RunStep) /\ WF_<<pc, pending>>(GpuProgress)

(* ------------------------------ properties ----------------------------- *)
PCur == Current(particleBuffer, pBufferIndex)
P2Cur == Current(predatorBuffer, p2BufferIndex)

\* the order of passes claim C1 states
C1_Order ==
  <<"UpdateR", "UpdateO", "ComputeC", "UpdateH", "DiffuseH", "UpdateM",
    "ClearPDensity", "AccumulatePDensity", "ClearNextP2", "UpdateP2",
    "ClearP2Density", "AccumulateP2Density", "UpdateP">>

\* C1: in every step the passes are dispatched in exactly the order R, O, C,
\* H, H diffuse, M, clear Dp, scatter Dp, clear next P2, update P2, clear Dp2,
\* scatter Dp2, update P: what has been dispatched is always a prefix of that
\* order, the running pass is the last one dispatched (invocations are only
\* ever pending for it), and a finished step has dispatched all thirteen.
C1_DispatchOrder ==
  /\ Len(dispatched) <= Len(C1_Order)
  /\ \A k \in 1 .. Len(dispatched) : dispatched[k] = C1_Order[k]
  /\ pc # "Idle" => dispatched # <<>> /\ dispatched[Len(dispatched)] = pc
  /\ pending # {} => pc \in PerSlot
  /\ (pc = "Idle" /\ dispatched # <<>>) => dispatched = C1_Order

\* a second step has run to its end
C1_Witness ==
  pc = "Idle" /\ frameCount = MaxSteps /\ dispatched = C1_Order

\* the cell a (non-NaN) position buckets to: clamp to the grid, truncate
BucketOf(pos) ==
  (clamp(pos[2], 0, maxY) \div Scale) * gridW + (clamp(pos[1], 0, maxX) \div Scale)
ActiveIn(buf, c) ==
  Cardinality({i \in DOMAIN buf : buf[i].state # 0 /\ BucketOf(buf[i].pos) = c})
RECURSIVE SumTo(_, _)
SumTo(f, n) == IF n < 0 THEN 0 ELSE f[n] + SumTo(f, n - 1)
Total(density) == SumTo(density, GridW * GridH - 1)

\* C2: once the prey scatter pass of a step has finished (and until the prey
\* buffers swap), Dp[c] is the number of active slots of the current P buffer
\* whose position buckets to c, for every cell c and whatever order the scatter
\* invocations ran in, and sum(Dp) is the number of active prey slots; the
\* same for Dp2 and the current P2 buffer once the predator scatter has finished.
C2_ScatterCounts ==
  /\ pc \in {"ClearNextP2", "UpdateP2", "ClearP2Density", "AccumulateP2Density", "UpdateP"}
       => /\ \A c \in Cells : pDensity[c] = ActiveIn(PCur, c)
          /\ Total(pDensity) = Cardinality({i \in DOMAIN PCur : PCur[i].state # 0})
  /\ pc = "UpdateP"
       => /\ \A c \in Cells : p2Density[c] = ActiveIn(P2Cur, c)
          /\ Total(p2Density) = Cardinality({i \in DOMAIN P2Cur : P2Cur[i].state # 0})

\* both scatters have run; two prey share a cell, a predator slot is inactive
C2_Witness ==
  /\ pc = "UpdateP"
  /\ \E c \in Cells : pDensity[c] = 2
  /\ \E c \in Cells : p2Density[c] = 1
  /\ \E i \in DOMAIN P2Cur : P2Cur[i].state = 0

\* a step has just ended: every invocation of its last pass has drawn its seed
EndOfStep == pc = "Idle" /\ DOMAIN drawn = Slots
\* the buffers the last step's agent passes read (the ping-pong partner now)
PPrev == NextBuf(particleBuffer, pBufferIndex)
P2Prev == NextBuf(predatorBuffer, p2BufferIndex)

InGrid(pos) ==
  /\ ~is_nan(pos[1]) /\ ~is_nan(pos[2])
  /\ 0 <= pos[1] /\ pos[1] <= maxX
  /\ 0 <= pos[2] /\ pos[2] <= maxY
ValidSlots(buf) ==
  \A i \in DOMAIN buf :
     /\ buf[i].state \in {0, 1}
     /\ buf[i].state = 1 => InGrid(buf[i].pos)

\* C3: at the end of every step each slot of the current P buffer and of the
\* current P2 buffer has state 0 or 1, and a slot with state 1 has its position
\* inside [0, W-1] x [0, H-1].
C3_ValidAtEndOfStep == EndOfStep => ValidSlots(PCur) /\ ValidSlots(P2Cur)

\* a step ended in which both pools grew by a child and a prey sits on the near wall
C3_Witness ==
  /\ EndOfStep
  /\ AliveCount(PCur) > AliveCount(PPrev)
  /\ AliveCount(P2Cur) > AliveCount(P2Prev)
  /\ \E i \in DOMAIN PCur : PCur[i].state = 1 /\ PCur[i].pos[1] = 0

\* the buffers the running (or just finished) agent pass reads and writes
PIn == IF pc = "UpdateP" THEN PCur ELSE PPrev
POut == IF pc = "UpdateP" THEN PPrev ELSE PCur
P2In == IF pc = "UpdateP2" THEN P2Cur ELSE P2Prev
P2Out == IF pc = "UpdateP2" THEN P2Prev ELSE P2Cur

\* C4: an active agent of either species that its update kernel observes with
\* a NaN position or a position outside the grid is written to the output
\* buffer with state 0: for every invocation that has run, if its input slot
\* was active with such a position, its output slot is inactive.
C4_InvalidMarkedInactive ==
  /\ pc \in {"UpdateP", "Idle"}
       => \A idx \in DOMAIN drawn :
             (PIn[idx].state = 1 /\ ~InGrid(PIn[idx].pos)) => POut[idx].state = 0
  /\ pc \in {"UpdateP2", "ClearP2Density"}
       => \A idx \in DOMAIN drawn :
             (P2In[idx].state = 1 /\ ~InGrid(P2In[idx].pos)) => P2Out[idx].state = 0

EnergyInRange(a, minEnergy, maxEnergy) == minEnergy <= a.energy /\ a.energy <= maxEnergy

\* C5 as claimed: after every step every slot with state 1 in either pool, a
\* parent written back or a child written in that step, has
\* minEnergy <= energy <= maxEnergy of its species.
C5_AllActiveInRange ==
  EndOfStep =>
    /\ \A i \in DOMAIN PCur :
          PCur[i].state = 1 => EnergyInRange(PCur[i], params.pMinEnergy, params.pMaxEnergy)
    /\ \A i \in DOMAIN P2Cur :
          P2Cur[i].state = 1 => EnergyInRange(P2Cur[i], params.p2MinEnergy, params.p2MaxEnergy)

\* C5 as amended: every agent that was active when its update ran and is
\* written back with state 1 has minEnergy <= energy <= maxEnergy of its
\* species, and one written back with energy below minEnergy has state 0 (a
\* child written in the step carries half its parent's energy unchecked).
C5_ParentsInRange ==
  /\ pc \in {"UpdateP", "Idle"}
       => \A idx \in DOMAIN drawn :
             PIn[idx].state = 1
               => /\ POut[idx].state = 1
                       => EnergyInRange(POut[idx], params.pMinEnergy, params.pMaxEnergy)
                  /\ POut[idx].energy < params.pMinEnergy => POut[idx].state = 0
  /\ pc \in {"UpdateP2", "ClearP2Density"}
       => \A idx \in DOMAIN drawn :
             P2In[idx].state = 1
               => /\ P2Out[idx].state = 1
                       => EnergyInRange(P2Out[idx], params.p2MinEnergy, params.p2MaxEnergy)
                  /\ P2Out[idx].energy < params.p2MinEnergy => P2Out[idx].state = 0

\* a step ended in which a prey starved while its child, below minEnergy, is active
C5_Witness ==
  /\ EndOfStep
  /\ \E idx \in DOMAIN PCur :
        /\ PPrev[idx].state = 1 /\ PCur[idx].state = 0
        /\ PCur[idx].energy < params.pMinEnergy
  /\ \E j \in DOMAIN PCur :
        /\ PPrev[j].state = 0 /\ PCur[j].state = 1
        /\ PCur[j].energy < params.pMinEnergy

\* C6: after any sequence of initialisation, reset, pCount / p2Count changes
\* and steps, at most maxParticles slots of the P pool and at most maxPredators
\* slots of the P2 pool have state 1 (in either buffer of the pool).
C6_WithinCapacity ==
  /\ \A k \in {1, 2} : AliveCount(particleBuffer[k]) <= maxParticles
  /\ \A k \in {1, 2} : AliveCount(predatorBuffer[k]) <= maxPredators

\* both pools are full at the end of a step that followed a pCount change
\* carrying a value above the capacity
C6_Witness ==
  /\ EndOfStep
  /\ params.pCount = maxParticles /\ params.pReproduceThreshold <= Scale
  /\ AliveCount(PPrev) = maxParticles
  /\ AliveCount(P2Cur) = maxPredators

\* the scenario of claim C7 at the step that has just ended: reproduction on,
\* more food in every cell than all prey together can eat, and the prey kernel
\* started from a pool whose slots were all active, in the grid, at an energy
\* an initialised or surviving agent can have (and every predator was valid)
C7_Scenario ==
  /\ EndOfStep
  /\ params.pReproduceEnabled > Scale \div 2
  /\ params.pEatEnabled > Scale \div 2
  /\ \A c \in Cells : bAtStart[c] >= Scale
  /\ \A i \in DOMAIN PPrev :
        /\ PPrev[i].state = 1 /\ InGrid(PPrev[i].pos)
        /\ PPrev[i].energy >= params.pMinEnergy
  /\ ValidSlots(P2Prev)

C7_Gain == Mul(Mul(params.pEatAmount, params.deltaTime), params.pEnergyFromEat)
C7_Decay == Mul(params.pEnergyDecayRate, params.deltaTime)

Runs(kernel, idx) == pc = kernel /\ idx \in pending /\ idx \notin pending'

\* the prey of slot idx qualifies for reproduction with the seed it draws and
\* none of its 8 probed slots is free
C8_PreyBlocked(idx) ==
  /\ PCur[idx].state = 1
  /\ params.pReproduceEnabled > Scale \div 2
  /\ PFeed(PCur[idx], bField, p2Density, params, drawn'[idx]).energy
        >= params.pReproduceThreshold
  /\ FreeProbes(PCur, drawn'[idx].r0, maxParticles) = {}
C8_PredatorBlocked(idx) ==
  /\ P2Cur[idx].state = 1 /\ InGrid(P2Cur[idx].pos)
  /\ params.p2ReproduceEnabled > Scale \div 2
  /\ P2Feed(P2Cur[idx], pDensity, Z, params, drawn'[idx]).energy
        >= params.p2ReproduceThreshold
  /\ FreeProbes(P2Cur, drawn'[idx].r0, maxPredators) = {}

\* the only slot of the output buffer the invocation changes is its own, and
\* the energy it writes there is e, capped at maxEnergy
C8_WritesOnlySelf(before, after, idx, e, maxEnergy) ==
  /\ \A j \in DOMAIN after : j # idx => after[j] = before[j]
  /\ after[idx].energy = Min(e, maxEnergy)

\* C8 as claimed: when an agent qualifies for reproduction and none of its 8
\* probed slots is free, no child is written to any slot and the parent is
\* written back with half of the energy it had before the attempt (then capped).
C8_BlockedKeepsHalvedEnergy ==
  [][\A idx \in Slots :
       /\ (Runs("UpdateP", idx) /\ C8_PreyBlocked(idx))
            => C8_WritesOnlySelf(PPrev, particleBuffer'[2 - pBufferIndex], idx,
                 PFeed(PCur[idx], bField, p2Density, params, drawn'[idx]).energy \div 2,
                 params.pMaxEnergy)
       /\ (Runs("UpdateP2", idx) /\ C8_PredatorBlocked(idx))
            => C8_WritesOnlySelf(P2Prev, predatorBuffer'[2 - p2BufferIndex], idx,
                 P2Feed(P2Cur[idx], pDensity, Z, params, drawn'[idx]).energy \div 2,
                 params.p2MaxEnergy)]_vars

\* C8 as amended: when an agent qualifies for reproduction and none of its 8
\* probed slots is free, no child is written to any slot and the parent is
\* written back with the whole energy it had before the attempt (then capped):
\* the energy is halved only once a free slot has been found.
C8_BlockedKeepsEnergy ==
  [][\A idx \in Slots :
       /\ (Runs("UpdateP", idx) /\ C8_PreyBlocked(idx))
            => C8_WritesOnlySelf(PPrev, particleBuffer'[2 - pBufferIndex], idx,
                 PFeed(PCur[idx], bField, p2Density, params, drawn'[idx]).energy,
                 params.pMaxEnergy)
       /\ (Runs("UpdateP2", idx) /\ C8_PredatorBlocked(idx))
            => C8_WritesOnlySelf(P2Prev, predatorBuffer'[2 - p2BufferIndex], idx,
                 P2Feed(P2Cur[idx], pDensity, Z, params, drawn'[idx]).energy,
                 params.p2MaxEnergy)]_vars

\* a prey invocation has run whose agent was written back with an energy at or
\* above the reproduction threshold although the pool it read had no free slot
C8_Witness ==
  /\ pc = "UpdateP"
  /\ params.pReproduceEnabled > Scale \div 2
  /\ \E idx \in DOMAIN drawn :
        /\ PIn[idx].state = 1
        /\ FreeProbes(PIn, drawn[idx].r0, maxParticles) = {}
        /\ POut[idx].state = 1
        /\ POut[idx].energy >= params.pReproduceThreshold
        /\ POut[idx].energy < params.pMaxEnergy

RECURSIVE C9_PreyInOrder(_, _, _)
\* the prey buffer the last prey pass leaves when its invocations k, k+1, ...
\* run in index order with the seeds they drew
C9_PreyInOrder(out, b, k) ==
  IF k >= maxParticles THEN out
  ELSE C9_PreyInOrder(UpdatePSlot(PPrev, out, b, p2Density, params, k, drawn[k])[1],
                      UpdatePSlot(PPrev, out, b, p2Density, params, k, drawn[k])[2],
                      k + 1)
RECURSIVE C9_PredatorsInOrder(_, _)
C9_PredatorsInOrder(out, k) ==
  IF k >= maxPredators THEN out
  ELSE C9_PredatorsInOrder(UpdateP2Slot(P2Prev, out, pDensity, Z, params, k, drawn[k]), k + 1)

\* C9: with the same parameters, initial buffers and currentTime sequence, two
\* executions end with the same P and P2 alive counts and the same per-cell
\* densities, whatever order the invocations of a kernel ran in: the buffer an
\* agent pass has just written has the alive count and per-cell counts of the
\* buffer the same invocations, with the same seeds, write in index order.
C9_OrderIndependent ==
  /\ EndOfStep
       => LET inOrder == C9_PreyInOrder(PPrev, bAtStart, 0)
          IN  /\ AliveCount(PCur) = AliveCount(inOrder)
              /\ \A c \in Cells : ActiveIn(PCur, c) = ActiveIn(inOrder, c)
  /\ (pc = "ClearP2Density" /\ DOMAIN drawn = Slots)
       => LET inOrder == C9_PredatorsInOrder([i \in Slots |-> ZeroParticle], 0)
          IN  /\ AliveCount(P2Cur) = AliveCount(inOrder)
              /\ \A c \in Cells : ActiveIn(P2Cur, c) = ActiveIn(inOrder, c)

Within(f, lo, hi) == \A i \in Cells : lo <= f[i] /\ f[i] <= hi

\* C10: at the end of every step, whatever in-range parameter values and field
\* contents it started from, every cell has R, O, C in [0, 1], H, M, B and
\* B_long in [0, 10], and Z_rock <= Z <= 1000.
C10_FieldsInRange ==
  EndOfStep =>
    /\ Within(Current(rField, rBufferIndex), 0, Scale)
    /\ Within(Current(oField, oBufferIndex), 0, Scale)
    /\ Within(cField, 0, Scale)
    /\ Within(Current(hField, hBufferIndex), 0, 10 * Scale)
    /\ Within(Current(mField, mBufferIndex), 0, 10 * Scale)
    /\ Within(bField, 0, 10 * Scale)
    /\ Within(bLongField, 0, 10 * Scale)
    /\ \A i \in Cells : terrainRock[i] <= Z[i] /\ Z[i] <= 1000 * Scale

\* a step ended in which M fell from 10 to the lower clamp bound in one cell
\* while another field sits at its upper bound, and prey have eaten from B
C10_Witness ==
  /\ EndOfStep
  /\ \E i \in Cells : /\ NextBuf(mField, mBufferIndex)[i] = 10 * Scale
                      /\ Current(mField, mBufferIndex)[i] = 0
  /\ \E i \in Cells : Current(rField, rBufferIndex)[i] = Scale
  /\ \E i \in Cells : bField[i] < bAtStart[i]

\* C11: every step ends with a terrain update that writes the next Z buffer and
\* flips the Z ping-pong index, so between steps the Z index has flipped once
\* per step run since the indices were last zeroed.
C11_ZFlipsOncePerStep ==
  pc = "Idle" => zBufferIndex = frameCount % 2

\* the stored value v of parameter name lies within the declared range
InRange(name, v) ==
  ~is_nan(v) /\ getDefinition(name)[1] <= v /\ v <= getDefinition(name)[2]

\* C12: for every declared parameter name and every caller-supplied value v,
\* after set(name, v) the stored value lies within the declared [min, max],
\* and equals v when v is already within the range.
C12_SetStoresClamped ==
  /\ called.op \in {"control", "import"} =>
       \A name \in called.names \cap DOMAIN PARAMETER_DEFS : InRange(name, params[name])
  /\ \A name \in DOMAIN PARAMETER_DEFS :
       \A value \in ControlValues(name) : set(params, name, value)[name] = value

\* C13: a set, or an imported key, whose name is not a declared parameter is
\* ignored: no stored parameter value changes, no field or pool is
\* reinitialised, and the operation completes.
C13_UnknownIgnored ==
  [][/\ \A name \in UnknownNames : \A value \in ImportValues(name) :
          set(params, name, value) = params
     /\ (called'.op = "import" /\ called'.names \subseteq UnknownNames)
          => UNCHANGED programVars]_vars

\* an import of only an undeclared key has run in a state whose parameters a
\* control had changed before, and they are still as the control left them
C13_Witness ==
  /\ called = [op |-> "import", names |-> UnknownNames]
  /\ params.o0 = 0
  /\ Current(oField, oBufferIndex) = Fill(0)
  /\ params.pCount = maxParticles

\* the buffers and the index a change of parameter name reinitialises
Untouched(name) ==
  /\ name # "o0" => UNCHANGED oField
  /\ name # "h0" => UNCHANGED hField
  /\ name # "pCount" => UNCHANGED <<particleBuffer, pBufferIndex>>
  /\ name # "p2Count" => UNCHANGED <<predatorBuffer, p2BufferIndex>>
  /\ UNCHANGED <<rField, mField, cField, bField, bLongField, terrainField, terrainRock,
                 densVars, rBufferIndex, oBufferIndex, mBufferIndex, hBufferIndex,
                 zBufferIndex>>

\* the buffer of parameter name is in its initial state for the stored value
Reinitialised(name) ==
  CASE name = "o0" -> Current(oField, oBufferIndex)' = Fill(params'.o0)
    [] name = "h0" -> Current(hField, hBufferIndex)' = Fill(params'.h0)
    [] name = "pCount" -> AliveCount(Current(particleBuffer, pBufferIndex)') = params'.pCount
    [] name = "p2Count" -> AliveCount(Current(predatorBuffer, p2BufferIndex)') = params'.p2Count
    [] OTHER -> TRUE

\* C14: after set_param of o0 (h0, pCount, p2Count) with any value, arriving
\* from a control or from an import, the current O field (H field, P pool, P2
\* pool) is in its initial state for the clamped stored value, and no other
\* field, pool or ping-pong index is changed.
C14_ReinitForStoredValue ==
  [][\A name \in DeclaredNames :
       (called'.op \in {"control", "import"} /\ called'.names = {name})
         => Reinitialised(name) /\ Untouched(name)]_vars

\* every active record of the pool has energy 1.0 and zero velocity, and count are active
FreshPool(buf, count) ==
  /\ AliveCount(buf) = count
  /\ \A i \in DOMAIN buf :
       buf[i].state = 1 => buf[i].energy = Scale /\ buf[i].vel = <<0, 0>>

C16_SubstepsPerFrame ==
  (loop.mode = "frame" /\ ~loop.inAnimate /\ loop.calls = 0 /\ isRunning)
    => frameSteps = params.speedMultiplier \div Scale


\* the steps the engine has executed since the batch run was called
BatchExecuted == frameCount - batch.startFrame

C18_OutcomeDistinguishes ==
  batch.at = "idle" /\ batch.runs > 0 =>
    (batch.lastResult.progressText = "Stopped"
       <=> batch.lastResult.totalSteps < batch.lastResult.requestedSteps)

\* the agent of C19's scenario has been moved with dt = 1 and reached the
\* integration with its velocity (-1, 0): no friction, speed limit 2 * speed >= 1
C19_Case ==
  /\ trial.at = "out"
  /\ trial.start = [pos |-> <<0 - Scale, (trial.gridH * Scale) \div 2>>,
                    vel |-> <<0 - Scale, 0>>]
  /\ trial.dt = Scale
  /\ trial.friction = 0
  /\ trial.speed >= Scale \div 2

C20_Collapsed ==
  /\ \A i \in Slots : particleBuffer[1][i].state = 0 /\ particleBuffer[2][i].state = 0
  /\ \A c \in Cells : pDensity[c] = 0

ChildSlotOf(bufIn, j, capacity) ==
  {candidateSlot(drawn[j].r0, a, capacity) : a \in FreeProbes(bufIn, drawn[j].r0, capacity)}

\* C21: when the P2 update kernel starts, every record of the buffer it writes
\* is zero; and when it has finished, an active record of the new current
\* buffer is the agent updated in that slot or a child written in this pass.
C21_NextP2Cleared ==
  /\ (pc = "UpdateP2" /\ pending = Slots) =>
        \A i \in Slots : NextBuf(predatorBuffer, p2BufferIndex)[i] = ZeroParticle
  /\ pc = "ClearP2Density" =>
        \A i \in Slots :
           P2Cur[i].state = 1 =>
              \/ NextBuf(predatorBuffer, p2BufferIndex)[i].state = 1
              \/ \E j \in DOMAIN drawn :
                    /\ NextBuf(predatorBuffer, p2BufferIndex)[j].state = 1
                    /\ i \in ChildSlotOf(NextBuf(predatorBuffer, p2BufferIndex), j, maxPredators)

\* the P2 update kernel starts in a later step, on a buffer that held active
\* records when it was last current
C21_Witness ==
  /\ pc = "UpdateP2" /\ pending = Slots
  /\ frameCount >= 1
  /\ \E i \in Slots : P2Cur[i].state = 1
  /\ \A i \in Slots : NextBuf(predatorBuffer, p2BufferIndex)[i] = ZeroParticle

\* the prey of slot j, read by the pass that has just ended, reproduced whatever
\* it ate: it was active, its energy without any eating gain reached the
\* threshold and one of its probed slots was free in the input buffer
C22_Reproduced(j) ==
  /\ PPrev[j].state = 1 /\ ~is_nan(PPrev[j].pos[1]) /\ ~is_nan(PPrev[j].pos[2])
  /\ params.pReproduceEnabled > Scale \div 2
  /\ PFeed(PPrev[j], Fill(0), p2Density, params, drawn[j]).energy
        >= params.pReproduceThreshold
  /\ FreeProbes(PPrev, drawn[j].r0, maxParticles) # {}
C22_Target(j) ==
  candidateSlot(drawn[j].r0, FirstProbe(FreeProbes(PPrev, drawn[j].r0, maxParticles)),
                maxParticles)

\* C22: when the prey update kernel has finished, every slot of the buffer it
\* wrote holds what this pass wrote there (an inactive slot that is nobody's
\* reproduction target is the copy of its input), and the free slot a
\* reproducing parent chose holds an active record, in whatever order the
\* invocations ran.
C22_TargetHoldsChild ==
  EndOfStep =>
    /\ \A i \in Slots :
          (PPrev[i].state = 0 /\ PCur[i].state = 0) => PCur[i] = PPrev[i]
    /\ \A j \in Slots : C22_Reproduced(j) => PCur[C22_Target(j)].state = 1

\* the physical buffers (1 = A, 2 = B) a ping-pong pass binds for reading and
\* for writing when the field's index is index
ReadBinding(index) == index + 1
WriteBinding(index) == 2 - index

\* a step of a pass over the pair leaves the buffer bound for reading as it is
C23_ReadKept(kernels, pair, index) ==
  pc \in kernels =>
     /\ index \in {0, 1}
     /\ ReadBinding(index) # WriteBinding(index)
     /\ pair'[ReadBinding(index)] = pair[ReadBinding(index)]

\* C23: in every pass of every step the buffer written for R, O, H, M, P and
\* P2 is the other physical buffer than the one read for that field, and the
\* buffer read is not modified while the pass that writes the other one runs.
C23_NoAliasing ==
  [][/\ C23_ReadKept({"UpdateR"}, rField, rBufferIndex)
     /\ C23_ReadKept({"UpdateO"}, oField, oBufferIndex)
     /\ C23_ReadKept({"UpdateH", "DiffuseH"}, hField, hBufferIndex)
     /\ C23_ReadKept({"UpdateM"}, mField, mBufferIndex)
     /\ C23_ReadKept({"ClearNextP2", "UpdateP2"}, predatorBuffer, p2BufferIndex)
     /\ C23_ReadKept({"UpdateP"}, particleBuffer, pBufferIndex)]_vars

\* in a later step the field indices are back at 0 and the prey pass, reading
\* buffer B, has written a buffer A that differs from it
C23_Witness ==
  /\ pc = "UpdateP" /\ pending # Slots
  /\ frameCount >= 1
  /\ rBufferIndex = 0 /\ oBufferIndex = 0 /\ mBufferIndex = 0 /\ p2BufferIndex = 0
  /\ pBufferIndex = 1
  /\ particleBuffer[1] # particleBuffer[2]
  /\ rField[1] # rField[2]

\* a step of the pass kernel over the pair: the index flips when the pass ends,
\* and only then, so that the buffer the pass wrote is the one read from then
\* on; any other step that touches the pair or its index (a reinitialisation,
\* a reset) leaves both buffers with the same freshly written contents
C24_Swapped(kernel, pair, index) ==
  IF pc = kernel
  THEN /\ index' = IF pc' # pc THEN 1 - index ELSE index
       /\ pair'[ReadBinding(index)] = pair[ReadBinding(index)]
       /\ pc' # pc => ReadBinding(index') = WriteBinding(index)
  ELSE (pair' # pair \/ index' # index) =>
          /\ pair'[1] = pair'[2]
          /\ index' \in {0, 1}

\* C24: after each ping-pong pass the field's index is flipped, so that what
\* is read for R, O, H, M, P and P2 from then on (by later passes, later steps
\* and the accessors) is the buffer written last, also after a pool
\* reinitialisation or a reset, which write both buffers.
C24_ReadsLatest ==
  [][/\ C24_Swapped("UpdateR", rField, rBufferIndex)
     /\ C24_Swapped("UpdateO", oField, oBufferIndex)
     /\ IF pc = "DiffuseH" THEN C24_Swapped("DiffuseH", hField, hBufferIndex)
                           ELSE C24_Swapped("UpdateH", hField, hBufferIndex)
     /\ C24_Swapped("UpdateM", mField, mBufferIndex)
     /\ IF pc = "ClearNextP2"
        THEN predatorBuffer'[ReadBinding(p2BufferIndex)] = predatorBuffer[ReadBinding(p2BufferIndex)]
               /\ p2BufferIndex' = p2BufferIndex
        ELSE C24_Swapped("UpdateP2", predatorBuffer, p2BufferIndex)
     /\ C24_Swapped("UpdateP", particleBuffer, pBufferIndex)]_vars

\* the prey pool has been reinitialised after an odd number of steps: the O
\* index is 1, the prey index is 0 again and both prey buffers hold the new data
C24_Witness ==
  /\ pc = "Idle" /\ frameCount = 1
  /\ oBufferIndex = 1 /\ p2BufferIndex = 1
  /\ pBufferIndex = 0
  /\ particleBuffer[1] = particleBuffer[2]
  /\ oField[2] # Fill(params.o0)

\* what invocation idx of an agent kernel over the pair did besides its own
\* slot: the input buffer is as it was, and a slot of the output buffer other
\* than idx changes only by receiving a child, at the first of the 8 probes
\* from the drawn start whose input state is 0
C25_Probed(pair, index, idx, capacity) ==
  LET bufIn == pair[ReadBinding(index)]
      out == pair[WriteBinding(index)]
      out2 == pair'[WriteBinding(index)]
      free == FreeProbes(bufIn, drawn'[idx].r0, capacity)
      written == {j \in Slots \ {idx} : out2[j] # out[j]}
  IN  /\ pair'[ReadBinding(index)] = bufIn
      /\ Cardinality(written) <= 1
      /\ \A j \in written :
            /\ bufIn[idx].state = 1
            /\ free # {}
            /\ j = candidateSlot(drawn'[idx].r0, FirstProbe(free), capacity)
            /\ \A k \in 0 .. (FirstProbe(free) - 1) :
                  bufIn[candidateSlot(drawn'[idx].r0, k, capacity)].state # 0
            /\ bufIn[j].state = 0
            /\ out2[j].state = 1

C27_NoStepAfterCancel ==
  [][batch.isRunning /\ batch.cancelRequested =>
        /\ batch'.completed = batch.completed
        /\ (pc = "Idle" => pc' = "Idle")]_vars

\* the parent of slot j of the pass reproduced: active, fed to the threshold,
\* and one of its probes free in the input
C28_Halved(j) ==
  /\ trial.bufIn[j].state = 1
  /\ params.p2ReproduceEnabled > Scale \div 2
  /\ P2Feed(trial.bufIn[j], pDensity, Z, params, Seed(trial.r0[j])).energy
        >= params.p2ReproduceThreshold
  /\ FreeProbes(trial.bufIn, trial.r0[j], SpawnSlots) # {}
C28_Target(j) ==
  candidateSlot(trial.r0[j], FirstProbe(FreeProbes(trial.bufIn, trial.r0[j], SpawnSlots)),
                SpawnSlots)

\* C28: within one agent update kernel no two reproducing parents write their
\* children to the same slot, so that after the pass there are as many new
\* active slots in the output as parents that halved their energy.
C28_OneChildPerParent ==
  trial.at = "spawn" /\ trial.left = {} =>
     LET parents == {j \in 0 .. (SpawnSlots - 1) : C28_Halved(j)}
         children == {s \in 0 .. (SpawnSlots - 1) :
                        trial.bufIn[s].state = 0 /\ trial.out[s].state = 1}
     IN  /\ \A i, j \in parents : i # j => C28_Target(i) # C28_Target(j)
         /\ Cardinality(parents) = Cardinality(children)

\* the prey of the pass that ate in cell c
C29_Eaters(c) ==
  {j \in Slots : /\ PPrev[j].state = 1
                 /\ params.pEatEnabled > Scale \div 2
                 /\ EatCell(PFeed(PPrev[j], bAtStart, p2Density, params, drawn[j])) = c}

\* C29: when several active prey in the same cell eat in the same step, B of
\* the cell decreases by the sum of what they consumed and never drops below 0
\* (no update is lost): at the end of a step whose prey all had a position, the
\* cell has lost pEatAmount * dt for each prey that ate there, or all it held if
\* that was less.
C29_NoLostUpdate ==
  (EndOfStep /\ \A j \in Slots : ~is_nan(PPrev[j].pos[1]) /\ ~is_nan(PPrev[j].pos[2])) =>
    \A c \in Cells :
       /\ bField[c] >= 0
       /\ bAtStart[c] - bField[c] =
             Min(Cardinality(C29_Eaters(c)) * Mul(params.pEatAmount, params.deltaTime),
                 bAtStart[c])

\* a sub-step is started: the engine, idle, is given the first pass of a step
StepStarts == pc = "Idle" /\ pc' = "UpdateR"

\* C26: before every sub-step, of the loop or of a batch run, currentTime is
\* advanced by exactly the current dt and given to the kernels, so that each
\* step sees the time of the step before it plus dt.
C26_TimeAdvancesByDt ==
  [][StepStarts => currentTime' = currentTime + params.deltaTime]_vars

\* C30: while a batch run is in progress the simulation is stepped by that run
\* only: every sub-step started is one of the run's, no second run starts, and
\* no reset takes the step count back to 0.
C30_OnlyTheRunSteps ==
  [][batch.isRunning =>
        /\ StepStarts => batch'.completed = batch.completed + 1
        /\ batch'.runs = batch.runs
        /\ frameCount' >= frameCount]_vars

=========================================================================
